---- MODULE Spec2Model ----
(***************************************************************************)
(* A model of verdantd, the Stage-2 service manager of the verdant init    *)
(* stack: the dependency orderer (ordering.rs), the boot path of the       *)
(* manager registry (manager.rs, loader.rs) and the per-service supervisor *)
(* loop (supervisor.rs) with the launcher's stop operation (process.rs),  *)
(* the control endpoint with its shutdown threads (ipc_server.rs), and the *)
(* loader of the service files (loader.rs, parser.rs).                     *)
(*                                                                         *)
(* Rust's Option<T> is a sequence of length at most one: None is <<>> and  *)
(* Some(v) is <<v>>.  A HashMap is a function; the order in which it is    *)
(* iterated is not specified by the language and is a nondeterministic     *)
(* choice of a permutation of its keys.                                    *)
(***************************************************************************)
EXTENDS Integers, Sequences, FiniteSets, TLC

VARIABLES
    services,       \* ordering/boot: the Vec<ServiceFile> handed to order_services
    order_result,   \* ordering/boot: what order_services returned (NotCalled before)
    boot_pc,        \* boot: position of the boot path
    supervisors,    \* boot: ServiceManager.supervisors, name -> Supervisor
    visited_boot,   \* boot: names start_startup_services has iterated over
    launched,       \* boot: names of the children launched, in launch order
    supervisor,     \* supervision: the Supervisor moved into the supervisor thread
    thread_pc,      \* supervision: position of the supervisor thread
    procs,          \* supervision: the process table, pid -> [status, code]
    shutdown_flag,  \* supervision: the shared AtomicBool
    tty_in_use,     \* supervision: what the probe of the service's tty reports
    launch_log,     \* supervision: history of the launches, in order
    handles,        \* registry: ServiceManager.handles, the names with a thread handle
    spawn_log,      \* registry: history of the supervisor threads spawned, by name
    supervise_calls,\* registry: history, the calls of supervise_all that returned
    shutdown_log,   \* registry: history of the calls of ServiceManager::shutdown
    last_register,  \* registry: history, the last call of add_service
    last_stop,      \* registry: history, the last call of ServiceManager::stop_service
    stop_call,      \* launcher: the call of stop_service in progress
    stop_pc,        \* launcher: position of stop_service
    elapsed,        \* launcher: time since stop_service was called, in 100 ms
    poll_start,     \* launcher: when the poll loop in progress began
    requests,       \* control: the requests handled, with their responses
    ctl_trace,      \* control: history of what the endpoint and its threads did
    sd,             \* control: the shutdown thread of each request
    registry_lock,  \* control: the Mutex<ServiceManager>
    logger_locks,   \* control: the mutexes of the console and the file logger
    ctl_starting,   \* control: the service Supervisor::start is launching
    poisoned,       \* control: the logger mutexes a panic has poisoned
    directory,      \* loader: the entries of the service directory, in read order
    dev_entries,    \* loader: the entries of /dev, in read order
    produced        \* loader: history, the descriptors each entry gave

orderVars == <<services, order_result>>
bootVars == <<boot_pc, supervisors, visited_boot, launched>>
supVars == <<supervisor, thread_pc, procs, shutdown_flag, tty_in_use, launch_log>>
mgrVars == <<handles, spawn_log, supervise_calls, shutdown_log>>
\* the variables outside the orderer, the boot path and the supervisor thread
\* the variables the supervision of one service leaves alone
stopVars == <<stop_call, stop_pc, elapsed, poll_start>>
ctlVars == <<requests, ctl_trace, sd, registry_lock, logger_locks, ctl_starting,
             poisoned>>
loadVars == <<directory, dev_entries, produced>>
otherExt == <<last_register, last_stop, stopVars, ctlVars, loadVars>>
extVars == <<mgrVars, otherExt>>
vars == <<orderVars, bootVars, supVars, extVars>>

----------------------------------------------------------------------------
(* Bounds of the model *)

\* longest Vec<ServiceFile> handed to order_services
MaxServices == 3
\* longest dependencies list of one descriptor
MaxDeps == 2
\* most dependency entries in one input, over all its descriptors
MaxEdges == 3
\* most children launched for one supervised service
MaxLaunches == 3
\* most calls of ServiceManager::shutdown
MaxShutdownCalls == 2
\* most calls of ServiceManager::supervise_all
MaxSuperviseCalls == 2
\* longest time stop_service is followed, in 100 ms
MaxElapsed == 130
\* the requests the control endpoint handles
MaxRequests == 2
\* the entries of the service directory
MaxFiles == 2

----------------------------------------------------------------------------
(* Option<T> *)

None == <<>>
Some(v) == <<v>>
IsSome(o) == o # <<>>
Unwrap(o) == o[1]
UnwrapOr(o, d) == IF o = <<>> THEN d ELSE o[1]

----------------------------------------------------------------------------
(* Sequences helpers *)

Range(s) == {s[i] : i \in DOMAIN s}

\* all orders in which a HashMap with key set S can be iterated
Perms(S) == {p \in [1..Cardinality(S) -> S] : Range(p) = S}

RECURSIVE Filter(_, _)
\* the subsequence of s whose elements are in the set keep, order preserved
Filter(s, keep) ==
    IF s = <<>> THEN <<>>
    ELSE IF Head(s) \in keep THEN <<Head(s)>> \o Filter(Tail(s), keep)
         ELSE Filter(Tail(s), keep)

----------------------------------------------------------------------------
(* ordering.rs: order_services *)

\* priority.unwrap_or(50)
DefaultPriority == 50

\* the sort key of line 65: name_map[n].priority.unwrap_or(50)
SortKey(name_map, n) == UnwrapOr(name_map[n].priority, DefaultPriority)

\* lines 8-11: later descriptors overwrite earlier ones of the same name
NameMap(svcs) ==
    [n \in {svcs[i].name : i \in DOMAIN svcs} |->
        svcs[CHOOSE i \in DOMAIN svcs :
                /\ svcs[i].name = n
                /\ \A j \in DOMAIN svcs : svcs[j].name = n => j <= i]]

RECURSIVE InsertByKey(_, _, _)
\* insert n into the sorted sequence s after every element whose key is <= its own
InsertByKey(name_map, s, n) ==
    IF s = <<>> THEN <<n>>
    ELSE IF SortKey(name_map, Head(s)) <= SortKey(name_map, n)
         THEN <<Head(s)>> \o InsertByKey(name_map, Tail(s), n)
         ELSE <<n>> \o s

RECURSIVE SortByPriority(_, _)
\* lines 64-66: sort_by_key is a stable sort on the priority alone
SortByPriority(name_map, q) ==
    IF q = <<>> THEN <<>>
    ELSE InsertByKey(name_map,
                     SortByPriority(name_map, SubSeq(q, 1, Len(q) - 1)),
                     q[Len(q)])

\* lines 30-33: Err(BloomError::Custom("Unknown dependency '{dep}' for service '{name}'"))
ErrUnknownDependency(dep, name) ==
    [kind |-> "Err", error |-> "Custom", msg |-> "Unknown dependency",
     dep |-> dep, service |-> name]

\* line 70: Err(BloomError::Custom("Cycle detected in service dependencies"))
ErrCycle ==
    [kind |-> "Err", error |-> "Custom", msg |-> "Cycle detected in service dependencies"]

\* NeighborReady without the in-degree test
NeighborReadyAnyDegree(deg, neighbor, visited) == neighbor \notin visited

\* line 58: a neighbour joins the queue when its in-degree reaches zero
NeighborReady(deg, neighbor, visited) == deg = 0 /\ neighbor \notin visited

RECURSIVE AddDepsSkipUnknown(_, _, _, _, _)
\* AddDeps with the else branch of line 29 lost: an unknown name is skipped
AddDepsSkipUnknown(name_map, name, deps, k, st) ==
    IF k > Len(deps) THEN st
    ELSE LET dep == deps[k] IN
         IF dep \in DOMAIN name_map
         THEN AddDepsSkipUnknown(name_map, name, deps, k + 1,
                  [st EXCEPT !.graph[dep] = Append(@, name),
                             !.in_degree[name] = @ + 1])
         ELSE AddDepsSkipUnknown(name_map, name, deps, k + 1, st)

RECURSIVE AddDeps(_, _, _, _, _)
\* lines 25-35 for one service: st is [err, graph, in_degree]
AddDeps(name_map, name, deps, k, st) ==
    IF k > Len(deps) THEN st
    ELSE LET dep == deps[k] IN
         IF dep \in DOMAIN name_map
         THEN AddDeps(name_map, name, deps, k + 1,
                  [st EXCEPT !.graph[dep] = Append(@, name),
                             !.in_degree[name] = @ + 1])
         ELSE [st EXCEPT !.err = Some(ErrUnknownDependency(dep, name))]

RECURSIVE AddEdges(_, _, _, _)
\* lines 23-37: iter is the order in which name_map is iterated
AddEdges(name_map, iter, i, st) ==
    IF i > Len(iter) \/ IsSome(st.err) THEN st
    ELSE LET svc == name_map[iter[i]] IN
         IF IsSome(svc.dependencies)
         THEN AddEdges(name_map, iter, i + 1,
                       AddDeps(name_map, iter[i], Unwrap(svc.dependencies), 1, st))
         ELSE AddEdges(name_map, iter, i + 1, st)

RECURSIVE VisitNeighbors(_, _, _)
\* lines 55-61: st is [in_degree, queue]
VisitNeighbors(nbrs, visited, st) ==
    IF nbrs = <<>> THEN st
    ELSE LET neighbor == Head(nbrs)
             deg == st.in_degree[neighbor] - 1
         IN VisitNeighbors(Tail(nbrs), visited,
                [in_degree |-> [st.in_degree EXCEPT ![neighbor] = deg],
                 queue |-> IF NeighborReady(deg, neighbor, visited)
                           THEN Append(st.queue, neighbor)
                           ELSE st.queue])

RECURSIVE KahnLoop(_, _, _, _, _, _)
\* lines 50-67: the while loop; returns the names in emission order
KahnLoop(name_map, graph, in_degree, queue, ordered, visited) ==
    IF queue = <<>> THEN ordered
    ELSE LET name == Head(queue)
             visited2 == visited \cup {name}
             st == VisitNeighbors(graph[name], visited2,
                        [in_degree |-> in_degree, queue |-> Tail(queue)])
         IN KahnLoop(name_map, graph, st.in_degree,
                     SortByPriority(name_map, st.queue),
                     Append(ordered, name), visited2)

\* lines 73-76: name_map.remove(&name).unwrap() panics on a name met twice
CollectOrdered(name_map, ordered) ==
    IF \E i, j \in DOMAIN ordered : i < j /\ ordered[i] = ordered[j]
    THEN [kind |-> "Panic", order |-> <<>>]
    ELSE [kind |-> "Ok", order |-> [i \in DOMAIN ordered |-> name_map[ordered[i]]]]

\* lines 13-37: the graph and the in-degrees, or the error of line 30;
\* map_iter is the order in which name_map is iterated
BuildGraph(name_map, map_iter) ==
    AddEdges(name_map, map_iter, 1,
             [err |-> None,
              graph |-> [n \in DOMAIN name_map |-> <<>>],
              in_degree |-> [n \in DOMAIN name_map |-> 0]])

\* CycleDetected firing only when nothing at all was emitted
CycleDetectedIfEmpty(ordered, keys) == Len(ordered) = 0 /\ keys # {}

\* line 69: ordered.len() != name_map.len()
CycleDetected(ordered, keys) == Len(ordered) # Cardinality(keys)

\* lines 39-76: Kahn's algorithm on the graph st; deg_iter is the order in
\* which in_degree is iterated
EmitOrder(name_map, st, deg_iter) ==
    LET keys == DOMAIN name_map
        queue == Filter(deg_iter, {n \in keys : st.in_degree[n] = 0})
        ordered == KahnLoop(name_map, st.graph, st.in_degree, queue, <<>>, {})
    IN IF CycleDetected(ordered, keys)
       THEN ErrCycle
       ELSE CollectOrdered(name_map, ordered)

\* lines 7-77
order_services(svcs, map_iter, deg_iter) ==
    LET name_map == NameMap(svcs)
        st == BuildGraph(name_map, map_iter)
    IN IF IsSome(st.err) THEN Unwrap(st.err)
       ELSE EmitOrder(name_map, st, deg_iter)

\* every result order_services can return on svcs, over the iteration orders
\* of its two hash maps
OrderResults(svcs) ==
    LET name_map == NameMap(svcs)
        iters == Perms(DOMAIN name_map)
        graphs == {BuildGraph(name_map, mi) : mi \in iters}
    IN UNION {IF IsSome(st.err) THEN {Unwrap(st.err)}
              ELSE {EmitOrder(name_map, st, di) : di \in iters} : st \in graphs}

----------------------------------------------------------------------------
(* Inputs of the orderer *)

Names == {"a", "b", "c"}
\* a name no descriptor carries
UnknownName == "x"

\* String's Ord on the names of the model
NameRank(n) == CASE n = "a" -> 1 [] n = "b" -> 2 [] n = "c" -> 3 [] OTHER -> 4

Priorities == {None, Some(10), Some(60)}

DepLists == UNION {[1..k -> Names \cup {UnknownName}] : k \in 0..MaxDeps}
DepOptions == {None} \cup {Some(l) : l \in DepLists}

NumDeps(d) == IF d = None THEN 0 ELSE Len(Unwrap(d))

RECURSIVE SumDeps(_)
SumDeps(ds) == IF ds = <<>> THEN 0 ELSE NumDeps(Head(ds)) + SumDeps(Tail(ds))

\* the dependency columns of the inputs of length k
DepChoices == [k \in 1..MaxServices |->
                 {ds \in [1..k -> DepOptions] : SumDeps(ds) <= MaxEdges}]

\* the name columns: descriptors are listed in name order, equal names allowed
NameChoices == [k \in 1..MaxServices |->
                 {ns \in [1..k -> Names] :
                     \A i \in 1..(k - 1) : NameRank(ns[i]) <= NameRank(ns[i + 1])}]

NotCalled == [kind |-> "NotCalled"]

\* the registry has no thread handle and none of its operations was called
MgrIdle ==
    /\ handles = {}
    /\ spawn_log = <<>>
    /\ supervise_calls = 0
    /\ shutdown_log = <<>>

\* stop_service is not being timed
StopIdle ==
    /\ stop_call = None
    /\ stop_pc = "off"
    /\ elapsed = 0
    /\ poll_start = 0

\* no mutex is held or poisoned
LocksFree ==
    /\ registry_lock = [holder |-> None, poisoned |-> FALSE]
    /\ logger_locks = [console |-> None, file |-> None]
    /\ poisoned = {}

\* the control endpoint has handled no request and nothing is being started
CtlIdle ==
    /\ requests = <<>>
    /\ ctl_trace = <<>>
    /\ sd = <<>>
    /\ LocksFree
    /\ ctl_starting = None

\* load_services is not looked at
LoadIdle ==
    /\ directory = <<>>
    /\ dev_entries = <<>>
    /\ produced = <<>>

ExtIdle ==
    /\ MgrIdle
    /\ last_register = None
    /\ last_stop = None
    /\ StopIdle
    /\ CtlIdle
    /\ LoadIdle

\* no supervisor thread exists and no child has been launched
NoSupervision ==
    /\ supervisor = <<>>
    /\ thread_pc = "off"
    /\ procs = <<>>
    /\ shutdown_flag = FALSE
    /\ tty_in_use = FALSE
    /\ launch_log = <<>>

InitOrder ==
    /\ \E k \in 1..MaxServices :
         \E ns \in NameChoices[k], ps \in [1..k -> Priorities], ds \in DepChoices[k] :
            services = [i \in 1..k |-> [name |-> ns[i], priority |-> ps[i],
                                        dependencies |-> ds[i],
                                        startup_package |-> None]]
    /\ order_result = NotCalled
    /\ boot_pc = "off"
    /\ supervisors = <<>>
    /\ visited_boot = {}
    /\ launched = <<>>
    /\ NoSupervision
    /\ ExtIdle

\* a call of order_services on the input
CallOrderServices ==
    /\ order_result = NotCalled
    /\ boot_pc = "off"
    /\ \E r \in OrderResults(services) : order_result' = r
    /\ UNCHANGED <<services, bootVars, supVars, extVars>>

NextOrder == CallOrderServices

SpecOrder == InitOrder /\ [][NextOrder]_vars

----------------------------------------------------------------------------
(* supervisor.rs: the Supervisor struct, start *)

\* lines 26-40: Supervisor::new
NewSupervisor(service) ==
    [service |-> service, child |-> None, restart_count |-> 0, state |-> "Stopped"]

\* lines 42-61: Supervisor::start.  launch is what start_service returned:
\* None for an error, Some(pid) for the child it spawned.
SupStart(sup, launch) ==
    IF IsSome(sup.child)
    THEN [ok |-> FALSE, sup |-> sup]
    ELSE IF launch = None
         THEN [ok |-> FALSE, sup |-> [sup EXCEPT !.state = "Starting"]]
         ELSE [ok |-> TRUE,
               sup |-> [sup EXCEPT !.state = "Starting", !.child = launch,
                                   !.restart_count = 0]]

----------------------------------------------------------------------------
(* manager.rs and loader.rs: the boot path *)

\* manager.rs 45-49: Err(BloomError::Custom("Service '{name}' already added"))
ErrAlreadyAdded(name) ==
    [kind |-> "Err", error |-> "Custom", msg |-> "already added", service |-> name]

\* a variant that inserts without looking for the name first
add_service_replacing(sups, service) ==
    [ok |-> TRUE, result |-> [kind |-> "Ok"],
     supervisors |-> [n \in DOMAIN sups \cup {service.name} |->
                         IF n = service.name THEN NewSupervisor(service)
                         ELSE sups[n]]]

\* manager.rs 43-57: ServiceManager::add_service
add_service(sups, service) ==
    IF service.name \in DOMAIN sups
    THEN [ok |-> FALSE, result |-> ErrAlreadyAdded(service.name), supervisors |-> sups]
    ELSE [ok |-> TRUE, result |-> [kind |-> "Ok"],
          supervisors |-> [n \in DOMAIN sups \cup {service.name} |->
                              IF n = service.name THEN NewSupervisor(service)
                              ELSE sups[n]]]

RECURSIVE RegisterAll(_, _)
\* the boot sequence registers the loaded descriptors in load order
RegisterAll(sups, order) ==
    IF order = <<>> THEN sups
    ELSE RegisterAll(add_service(sups, Head(order)).supervisors, Tail(order))

\* the descriptors the loader parsed: distinct names, a priority (the parser
\* fills in 50), at most one dependency, with or without a startup package
BootPriorities == {Some(10), Some(DefaultPriority)}
BootDeps == {None} \cup {Some(<<d>>) : d \in Names}
BootNameChoices == [k \in 1..MaxServices |->
                     {ns \in [1..k -> Names] :
                         \A i \in 1..(k - 1) : NameRank(ns[i]) < NameRank(ns[i + 1])}]

InitBoot ==
    /\ \E k \in 1..MaxServices :
         \E ns \in BootNameChoices[k], ps \in [1..k -> BootPriorities],
            ds \in [1..k -> BootDeps], sp \in [1..k -> {None, Some("base")}] :
            services = [i \in 1..k |-> [name |-> ns[i], priority |-> ps[i],
                                        dependencies |-> ds[i],
                                        startup_package |-> sp[i]]]
    /\ order_result = NotCalled
    /\ boot_pc = "load"
    /\ supervisors = <<>>
    /\ visited_boot = {}
    /\ launched = <<>>
    /\ NoSupervision
    /\ ExtIdle

\* loader.rs 77-84: load_services orders what it parsed, or fails
BootLoad ==
    /\ boot_pc = "load"
    /\ \E r \in OrderResults(services) :
         /\ order_result' = r
         /\ boot_pc' = IF r.kind = "Ok" THEN "register" ELSE "failed"
    /\ UNCHANGED <<services, supervisors, visited_boot, launched, supVars, extVars>>

\* every loaded descriptor is registered, in load order
BootRegister ==
    /\ boot_pc = "register"
    /\ supervisors' = RegisterAll(supervisors, order_result.order)
    /\ boot_pc' = "start"
    /\ UNCHANGED <<services, order_result, visited_boot, launched, supVars, extVars>>

\* the supervisor the loop of line 64 visits next: supervisors is a HashMap
NextVisited(sups, visited) == DOMAIN sups \ visited

\* manager.rs 64-71: one iteration of the loop of start_startup_services
StartStartupVisit(n) ==
    /\ boot_pc = "start"
    /\ n \in NextVisited(supervisors, visited_boot)
    /\ visited_boot' = visited_boot \cup {n}
    /\ IF IsSome(supervisors[n].service.startup_package)
       THEN \E launch \in {None, Some(Len(launched) + 1)} :
              LET r == SupStart(supervisors[n], launch) IN
              /\ supervisors' = [supervisors EXCEPT ![n] = r.sup]
              /\ launched' = IF r.ok THEN Append(launched, n) ELSE launched
              /\ boot_pc' = IF r.ok THEN "start" ELSE "failed"
       ELSE UNCHANGED <<supervisors, launched, boot_pc>>
    /\ UNCHANGED <<services, order_result, supVars, extVars>>

\* manager.rs 73-101: the loop is over, start_startup_services returns Ok
StartStartupReturn ==
    /\ boot_pc = "start"
    /\ visited_boot = DOMAIN supervisors
    /\ boot_pc' = "started"
    /\ UNCHANGED <<services, order_result, supervisors, visited_boot, launched, supVars, extVars>>

NextBoot ==
    \/ BootLoad
    \/ BootRegister
    \/ \E n \in Names : StartStartupVisit(n)
    \/ StartStartupReturn

SpecBoot == InitBoot /\ [][NextBoot]_vars

----------------------------------------------------------------------------
(* The process table and process.rs: stop_service *)

\* a process is "running", a "zombie" (it has exited and its parent has not
\* waited for it) or "reaped"; code is its exit status: "0", "1" (a non-zero
\* code) or "sig" (killed by a signal)
NewProcess == [status |-> "running", code |-> "none"]

\* ExitStatus::success
Success(code) == code = "0"

\* kill(2) finds every process that has not been reaped, a zombie included
KillOk(table, pid) == table[pid].status # "reaped"

\* the process dies with the given status, unless it is dead already
Terminate(table, pid, code) ==
    IF table[pid].status = "running"
    THEN [table EXCEPT ![pid] = [status |-> "zombie", code |-> code]]
    ELSE table

\* Child::try_wait: a zombie is reaped and its status returned
TryWait(table, pid) ==
    CASE table[pid].status = "running" ->
            [kind |-> "None", code |-> "none", procs |-> table]
      [] table[pid].status = "zombie" ->
            [kind |-> "Some", code |-> table[pid].code,
             procs |-> [table EXCEPT ![pid].status = "reaped"]]
      [] OTHER -> [kind |-> "Err", code |-> "none", procs |-> table]

\* what a running child does with SIGTERM
TermReactions == {"sig", "0", "ignored"}

\* process.rs 79-208: stop_service.  sh_ok says whether the shell of the stop
\* command could be run, term what the child does with SIGTERM.
StopService(service, pid, table, sh_ok, term) ==
    IF IsSome(service.stop_cmd) /\ ~sh_ok
    THEN [ok |-> FALSE, procs |-> table]                          \* line 93
    ELSE IF ~KillOk(table, pid)
    THEN [ok |-> TRUE, procs |-> table]                           \* line 120
    ELSE LET termed == IF term = "ignored" THEN table
                       ELSE Terminate(table, pid, term) IN
         IF ~KillOk(termed, pid)
         THEN [ok |-> TRUE, procs |-> termed]                     \* line 149
         ELSE LET killed == Terminate(termed, pid, "sig") IN      \* line 160
              IF ~KillOk(killed, pid)
              THEN [ok |-> TRUE, procs |-> killed]                \* line 198
              ELSE [ok |-> FALSE, procs |-> killed]               \* line 188

----------------------------------------------------------------------------
(* supervisor.rs: stop, shutdown, the tty test, wait_for_exit_with_timeout *)

\* lines 63-83: Supervisor::stop
SupStop(sup, table, sh_ok, term) ==
    IF IsSome(sup.child)
    THEN LET r == StopService(sup.service, Unwrap(sup.child), table, sh_ok, term) IN
         IF r.ok
         THEN [ok |-> TRUE, procs |-> r.procs,
               sup |-> [sup EXCEPT !.child = None, !.state = "Stopped"]]
         ELSE [ok |-> FALSE, procs |-> r.procs,
               sup |-> [sup EXCEPT !.state = "Stopping"]]
    ELSE [ok |-> FALSE, procs |-> table, sup |-> sup]

\* lines 85-99: Supervisor::shutdown
SupShutdown(sup, table, sh_ok, term) == SupStop(sup, table, sh_ok, term)

\* str::find: the index of the first occurrence of c, 0 when there is none
Find(name, c) ==
    IF \E i \in DOMAIN name : name[i] = c
    THEN CHOOSE i \in DOMAIN name : name[i] = c /\ \A j \in 1..(i - 1) : name[j] # c
    ELSE 0

\* lines 101-112: Supervisor::is_tty_instance
is_tty_instance(name) ==
    LET pos == Find(name, "@") IN
    IF pos # 0 /\ SubSeq(name, 1, pos - 1) = <<"t", "t", "y">>
    THEN Some(SubSeq(name, pos + 1, Len(name)))
    ELSE None

\* lines 114-133: Supervisor::is_tty_in_use, the answer of the probe
is_tty_in_use(tty_id) == tty_in_use

\* how the wait of wait_for_exit_with_timeout ends for a child that runs
WaitOutcomes == {"exits", "timeout"}

\* lines 326-387: Supervisor::wait_for_exit_with_timeout
WaitForExit(sup, table, outcome) ==
    IF sup.child = None THEN [sup |-> sup, procs |-> table]
    ELSE LET pid == Unwrap(sup.child)
             exited == IF outcome = "exits" THEN Terminate(table, pid, "0") ELSE table
             w == TryWait(exited, pid) IN
         CASE w.kind = "Some" ->
                [sup |-> [sup EXCEPT !.child = None, !.state = "Stopped"],
                 procs |-> w.procs]
           [] w.kind = "None" ->
                [sup |-> sup, procs |-> Terminate(table, pid, "sig")]
           [] OTHER -> [sup |-> sup, procs |-> table]

----------------------------------------------------------------------------
(* supervisor.rs and manager.rs: one supervised service *)

\* service names are sequences of characters, so that find('@') and the
\* comparison of the prefix are computed
Web == <<"w", "e", "b">>
TtyInstance == <<"t", "t", "y", "@", "t", "t", "y", "1">>
GettyInstance == <<"g", "e", "t", "t", "y", "@", "t", "t", "y", "1">>
SupNames == {Web, TtyInstance, GettyInstance}

RestartPolicy == {"OnFailure", "Always", "Never"}
StopCmds == {None, Some("stop")}
ExitCodes == {"0", "1"}

\* the descriptors supervised: restart_delay only makes the restart later
SupServices ==
    {[name |-> n, restart |-> r, restart_delay |-> Some(1), stop_cmd |-> c] :
        n \in SupNames, r \in RestartPolicy, c \in StopCmds}

\* the service is registered, nothing is started, no thread is spawned
InitSup ==
    /\ \E svc \in SupServices :
         supervisors = [n \in {svc.name} |-> NewSupervisor(svc)]
    /\ supervisor = <<>>
    /\ thread_pc = "unspawned"
    /\ procs = <<>>
    /\ shutdown_flag = FALSE
    /\ tty_in_use \in BOOLEAN
    /\ launch_log = <<>>
    /\ ExtIdle
    /\ services = <<>>
    /\ order_result = NotCalled
    /\ boot_pc = "off"
    /\ visited_boot = {}
    /\ launched = <<>>

\* what start_service can return: an error, or the child it spawned
LaunchResults == {None, Some(Len(procs) + 1)}

\* process.rs 67-75: the child of a successful start joins the process table
Spawned(r, via) ==
    /\ procs' = IF r.ok THEN Append(procs, NewProcess) ELSE procs
    /\ launch_log' = IF r.ok
                     THEN Append(launch_log, [pid |-> Len(procs) + 1, via |-> via,
                                              busy |-> tty_in_use])
                     ELSE launch_log

\* a variant that never finds a handle
HasHandleNever(hs, n) == FALSE

\* manager.rs 122: self.handles.contains_key(&name)
HasHandle(hs, n) == n \in hs

\* manager.rs 104-109: ServiceManager::start_service, before the thread exists
ManagerStartService(n) ==
    /\ thread_pc = "unspawned"
    /\ n \in DOMAIN supervisors
    /\ supervisors[n].child = None
    /\ \E launch \in LaunchResults :
         LET r == SupStart(supervisors[n], launch) IN
         /\ supervisors' = [supervisors EXCEPT ![n] = r.sup]
         /\ Spawned(r, "manager")
    /\ UNCHANGED <<orderVars, boot_pc, visited_boot, launched, supervisor,
                   thread_pc, shutdown_flag, tty_in_use, extVars>>

\* manager.rs 117-143: ServiceManager::spawn_supervisor_thread moves the
\* supervisor into the thread and leaves a fresh one in the registry
SpawnSupervisorThread(n) ==
    /\ ~HasHandle(handles, n)
    /\ n \in DOMAIN supervisors
    /\ supervisor' = supervisors[n]
    /\ supervisors' = [supervisors EXCEPT ![n] = NewSupervisor(supervisors[n].service)]
    /\ thread_pc' = "entry"
    /\ handles' = handles \cup {n}
    /\ spawn_log' = Append(spawn_log, n)
    /\ UNCHANGED <<orderVars, boot_pc, visited_boot, launched, procs,
                   shutdown_flag, tty_in_use, launch_log, supervise_calls,
                   shutdown_log, otherExt>>

\* manager.rs 145-150: ServiceManager::supervise_all spawns a thread for every
\* key of the registry that has no handle; one service is registered here
SuperviseAll ==
    /\ thread_pc # "off"
    /\ supervise_calls < MaxSuperviseCalls
    /\ supervise_calls' = supervise_calls + 1
    /\ LET todo == {n \in DOMAIN supervisors : ~HasHandle(handles, n)} IN
       /\ Cardinality(todo) <= 1
       /\ handles' = handles \cup todo
       /\ supervisors' = [n \in DOMAIN supervisors |->
                            IF n \in todo THEN NewSupervisor(supervisors[n].service)
                            ELSE supervisors[n]]
       /\ IF todo = {}
          THEN UNCHANGED <<supervisor, thread_pc, spawn_log>>
          ELSE LET n == CHOOSE n \in todo : TRUE IN
               /\ supervisor' = supervisors[n]
               /\ thread_pc' = "entry"
               /\ spawn_log' = Append(spawn_log, n)
    /\ UNCHANGED <<orderVars, boot_pc, visited_boot, launched, procs,
                   shutdown_flag, tty_in_use, launch_log, shutdown_log, otherExt>>

RECURSIVE ShutdownEach(_, _, _, _, _)
\* manager.rs 162-169: every supervisor of the registry is shut down, in the
\* order values_mut() yields them; stops collects those that had a child
ShutdownEach(sups, table, order, sh_ok, term) ==
    IF order = <<>> THEN [supervisors |-> sups, procs |-> table, stops |-> {}]
    ELSE LET n == Head(order)
             r == SupShutdown(sups[n], table, sh_ok, term)
             rest == ShutdownEach([sups EXCEPT ![n] = r.sup], r.procs, Tail(order),
                                  sh_ok, term) IN
         [rest EXCEPT !.stops = IF IsSome(sups[n].child) THEN @ \cup {n} ELSE @]

\* a variant that keeps the supervisors in the registry
KeepSupervisors(sups) == sups

\* manager.rs 209: self.supervisors.clear()
ClearSupervisors(sups) == <<>>

\* the registry as a caller can observe it
RegistryView(sups, hs, flag) == [supervisors |-> sups, handles |-> hs, flag |-> flag]

\* manager.rs 152-217: ServiceManager::shutdown.  Whether a join ends or times
\* out changes nothing in the registry: the handle is drained in both cases.
ManagerShutdown ==
    /\ thread_pc # "off"
    /\ Len(shutdown_log) < MaxShutdownCalls
    /\ shutdown_flag' = TRUE
    /\ handles' = {}
    /\ \E order \in Perms(DOMAIN supervisors), sh_ok \in BOOLEAN,
          term \in TermReactions :
         LET r == ShutdownEach(supervisors, procs, order, sh_ok, term) IN
         /\ procs' = r.procs
         /\ supervisors' = ClearSupervisors(r.supervisors)
         /\ shutdown_log' = Append(shutdown_log,
                [stops |-> r.stops, joined |-> handles, result |-> "Ok",
                 before |-> RegistryView(supervisors, handles, shutdown_flag),
                 after |-> RegistryView(supervisors', handles', shutdown_flag')])
    /\ UNCHANGED <<orderVars, boot_pc, visited_boot, launched, supervisor,
                   thread_pc, tty_in_use, launch_log, spawn_log, supervise_calls,
                   otherExt>>

\* the variables a step of the supervisor thread leaves alone
threadFrame == <<orderVars, bootVars, shutdown_flag, tty_in_use, extVars>>

\* a start by the supervisor thread: an error makes the state Failed and
\* ends supervise_loop with that error
ThreadStart(sup, via) ==
    \E launch \in LaunchResults :
        LET r == SupStart(sup, launch) IN
        /\ supervisor' = IF r.ok THEN r.sup ELSE [r.sup EXCEPT !.state = "Failed"]
        /\ thread_pc' = IF r.ok THEN "loop" ELSE "failed"
        /\ Spawned(r, via)

\* supervisor.rs 136-168: the initial start of supervise_loop
SuperviseEntry ==
    /\ thread_pc = "entry"
    /\ IF IsSome(supervisor.child)
       THEN /\ thread_pc' = "loop"
            /\ UNCHANGED <<supervisor, procs, launch_log>>
       ELSE LET starting == [supervisor EXCEPT !.state = "Starting"]
                tty == is_tty_instance(supervisor.service.name) IN
            IF IsSome(tty) /\ is_tty_in_use(Unwrap(tty))
            THEN /\ supervisor' = [starting EXCEPT !.state = "Stopped"]
                 /\ thread_pc' = "loop"
                 /\ UNCHANGED <<procs, launch_log>>
            ELSE ThreadStart(starting, "entry")
    /\ UNCHANGED threadFrame

\* supervisor.rs 171-186: the flag is set; shutdown, bounded wait, break
SuperviseShutdown ==
    /\ thread_pc = "loop"
    /\ shutdown_flag
    /\ \E sh_ok \in BOOLEAN, term \in TermReactions, outcome \in WaitOutcomes :
         LET s == SupShutdown(supervisor, procs, sh_ok, term)
             w == WaitForExit(s.sup, s.procs, outcome) IN
         /\ supervisor' = w.sup
         /\ procs' = w.procs
    /\ thread_pc' = "done"
    /\ UNCHANGED <<threadFrame, launch_log>>

\* supervisor.rs 171: the flag is clear, the iteration goes on
SuperviseContinue ==
    /\ thread_pc = "loop"
    /\ ~shutdown_flag
    /\ thread_pc' = "body"
    /\ UNCHANGED <<threadFrame, supervisor, procs, launch_log>>

\* supervisor.rs 189-226 and 320: the iteration of a tty@ instance
SuperviseTty ==
    /\ thread_pc = "body"
    /\ IsSome(is_tty_instance(supervisor.service.name))
    /\ LET tty_id == Unwrap(is_tty_instance(supervisor.service.name)) IN
       IF is_tty_in_use(tty_id)
       THEN /\ IF supervisor.state # "Stopped"
               THEN \E sh_ok \in BOOLEAN, term \in TermReactions :
                      LET s == SupStop(supervisor, procs, sh_ok, term) IN
                      /\ supervisor' = s.sup
                      /\ procs' = s.procs
               ELSE UNCHANGED <<supervisor, procs>>
            /\ thread_pc' = "loop"
            /\ UNCHANGED launch_log
       ELSE IF supervisor.state = "Stopped" /\ supervisor.service.restart = "Always"
            THEN ThreadStart(supervisor, "tty")
            ELSE /\ thread_pc' = "loop"
                 /\ UNCHANGED <<supervisor, procs, launch_log>>
    /\ UNCHANGED threadFrame

\* lines 251-283: does the policy restart a child that exited with this code
RestartWanted(restart, code) ==
    \/ restart = "Always"
    \/ restart = "OnFailure" /\ ~Success(code)

\* supervisor.rs 230-320: the iteration of any other service, up to the
\* sleep of the restart delay
SuperviseWait ==
    /\ thread_pc = "body"
    /\ is_tty_instance(supervisor.service.name) = None
    /\ IF supervisor.child = None
       THEN /\ thread_pc' = "done"
            /\ UNCHANGED <<supervisor, procs>>
       ELSE LET w == TryWait(procs, Unwrap(supervisor.child))
                gone == [supervisor EXCEPT !.child = None] IN
            /\ procs' = w.procs
            /\ CASE w.kind = "Some" /\ shutdown_flag ->
                      /\ supervisor' = gone
                      /\ thread_pc' = "done"
                 [] w.kind = "Some" /\ ~shutdown_flag
                                    /\ RestartWanted(supervisor.service.restart, w.code) ->
                      /\ supervisor' = [gone EXCEPT !.restart_count = @ + 1]
                      /\ thread_pc' = "restart"
                 [] w.kind = "Some" /\ ~shutdown_flag
                                    /\ ~RestartWanted(supervisor.service.restart, w.code) ->
                      /\ supervisor' = [gone EXCEPT !.state = "Stopped"]
                      /\ thread_pc' = "loop"
                 [] w.kind = "None" ->
                      /\ supervisor' = [supervisor EXCEPT !.state =
                                          IF @ = "Starting" THEN "Running" ELSE @]
                      /\ thread_pc' = "loop"
                 [] OTHER ->
                      /\ supervisor' = [supervisor EXCEPT !.state = "Failed"]
                      /\ thread_pc' = "failed"
    /\ UNCHANGED <<threadFrame, launch_log>>

\* supervisor.rs 254-263 and 268-277: after the delay the child is started
SuperviseRestart ==
    /\ thread_pc = "restart"
    /\ ThreadStart([supervisor EXCEPT !.state = "Starting"], "restart")
    /\ UNCHANGED threadFrame

\* a running child exits by itself
ChildExits(pid, code) ==
    /\ pid \in DOMAIN procs
    /\ procs[pid].status = "running"
    /\ Len(procs) < MaxLaunches
    /\ procs' = Terminate(procs, pid, code)
    /\ UNCHANGED <<orderVars, bootVars, supervisor, thread_pc, shutdown_flag,
                   tty_in_use, launch_log, extVars>>

\* a shutdown is requested: the flag is set
RequestShutdown ==
    /\ thread_pc # "off"
    /\ ~shutdown_flag
    /\ shutdown_flag' = TRUE
    /\ UNCHANGED <<orderVars, bootVars, supervisor, thread_pc, procs,
                   tty_in_use, launch_log, extVars>>

\* a user logs in on the tty, or logs out
TtyFlip ==
    /\ thread_pc # "off"
    /\ tty_in_use' = ~tty_in_use
    /\ UNCHANGED <<orderVars, bootVars, supervisor, thread_pc, procs,
                   shutdown_flag, launch_log, extVars>>

\* the steps of the supervisor thread
SupervisorThread ==
    \/ SuperviseEntry
    \/ SuperviseShutdown
    \/ SuperviseContinue
    \/ SuperviseTty
    \/ SuperviseWait
    \/ SuperviseRestart

NextSup ==
    \/ \E n \in SupNames : ManagerStartService(n)
    \/ \E n \in SupNames : SpawnSupervisorThread(n)
    \/ SuperviseEntry
    \/ SuperviseShutdown
    \/ SuperviseContinue
    \/ SuperviseTty
    \/ SuperviseWait
    \/ SuperviseRestart
    \/ \E pid \in 1..MaxLaunches, code \in ExitCodes : ChildExits(pid, code)
    \/ RequestShutdown
    \/ TtyFlip

SpecSup == InitSup /\ [][NextSup]_vars

\* the supervisor thread is scheduled: a step it can take is taken
SpecSupFair == SpecSup /\ WF_vars(SupervisorThread)

\* the supervised service together with the registry operations that act on
\* all supervisors
NextMgr ==
    \/ NextSup
    \/ SuperviseAll
    \/ ManagerShutdown

SpecMgr == InitSup /\ [][NextMgr]_vars

----------------------------------------------------------------------------
(* manager.rs: registering and starting services, before any thread exists *)

\* the descriptors handed to add_service
RegServices ==
    {[name |-> n, restart |-> r, restart_delay |-> Some(1), stop_cmd |-> None] :
        n \in {Web, TtyInstance}, r \in {"Always", "Never"}}

\* ServiceManager::new: an empty registry
InitReg ==
    /\ supervisors = <<>>
    /\ supervisor = <<>>
    /\ thread_pc = "unspawned"
    /\ procs = <<>>
    /\ shutdown_flag = FALSE
    /\ tty_in_use = FALSE
    /\ launch_log = <<>>
    /\ ExtIdle
    /\ services = <<>>
    /\ order_result = NotCalled
    /\ boot_pc = "off"
    /\ visited_boot = {}
    /\ launched = <<>>

\* manager.rs 43-57: a call of ServiceManager::add_service
AddService(service) ==
    /\ thread_pc = "unspawned"
    /\ LET r == add_service(supervisors, service) IN
       /\ supervisors' = r.supervisors
       /\ last_register' = Some([service |-> service, before |-> supervisors,
                                 after |-> r.supervisors, result |-> r.result])
    /\ UNCHANGED <<orderVars, boot_pc, visited_boot, launched, supVars, mgrVars,
                   last_stop, stopVars, ctlVars, loadVars>>

NextReg ==
    \/ \E service \in RegServices : AddService(service)
    \/ \E n \in SupNames : ManagerStartService(n)

SpecReg == InitReg /\ [][NextReg]_vars

\* manager.rs 111-115: Err(BloomError::Custom("Service '{name}' not found"))
ErrNotFound(name) ==
    [kind |-> "Err", error |-> "Custom", msg |-> "not found", service |-> name]

\* supervisor.rs 77-82 and process.rs 93-203: the errors Supervisor::stop returns
ErrStop(name) ==
    [kind |-> "Err", error |-> "Custom", msg |-> "not stopped", service |-> name]

\* the children of the service that run: the one its supervisor in the
\* registry holds and the one the supervisor in its thread holds
RunningChildren(n) ==
    {pid \in DOMAIN procs :
        /\ procs[pid].status = "running"
        /\ \/ n \in DOMAIN supervisors /\ supervisors[n].child = Some(pid)
           \/ /\ supervisor # <<>>
              /\ supervisor.service.name = n
              /\ supervisor.child = Some(pid)}

\* manager.rs 112: self.supervisors.get_mut(name)
StopTarget(sups, n) == sups[n]

\* manager.rs 111-115: a call of ServiceManager::stop_service
ManagerStopService(n) ==
    /\ thread_pc # "off"
    /\ IF n \notin DOMAIN supervisors
       THEN /\ last_stop' = Some([name |-> n, result |-> ErrNotFound(n),
                                  running |-> RunningChildren(n),
                                  before |-> procs, after |-> procs])
            /\ UNCHANGED <<supervisors, procs>>
       ELSE \E sh_ok \in BOOLEAN, term \in TermReactions :
              LET r == SupStop(StopTarget(supervisors, n), procs, sh_ok, term) IN
              /\ supervisors' = [supervisors EXCEPT ![n] = r.sup]
              /\ procs' = r.procs
              /\ last_stop' = Some([name |-> n,
                                    result |-> IF r.ok THEN [kind |-> "Ok"]
                                               ELSE ErrStop(n),
                                    running |-> RunningChildren(n),
                                    before |-> procs, after |-> r.procs])
    /\ UNCHANGED <<orderVars, boot_pc, visited_boot, launched, supervisor, thread_pc,
                   shutdown_flag, tty_in_use, launch_log, mgrVars, last_register,
                   stopVars, ctlVars, loadVars>>

\* the first supervisor thread is spawned
SpawnFirstThread(n) ==
    /\ thread_pc = "unspawned"
    /\ SpawnSupervisorThread(n)

\* the registry operations that name a service, up to the moment the first
\* supervisor thread, just spawned, begins to run
NextByName ==
    \/ \E service \in RegServices : AddService(service)
    \/ \E n \in SupNames : ManagerStartService(n)
    \/ \E n \in SupNames : ManagerStopService(n)
    \/ \E n \in SupNames : SpawnFirstThread(n)

SpecByName == InitReg /\ [][NextByName]_vars

\* manager.rs 104-109: ServiceManager::start_service once the supervisor
\* thread of the service exists: the registry holds the supervisor that
\* spawn_supervisor_thread left there
ManagerStartSupervised(n) ==
    /\ thread_pc \notin {"off", "unspawned"}
    /\ n \in DOMAIN supervisors
    /\ Len(procs) < MaxLaunches
    /\ \E launch \in LaunchResults :
         LET r == SupStart(supervisors[n], launch) IN
         /\ supervisors' = [supervisors EXCEPT ![n] = r.sup]
         /\ Spawned(r, "manager")
    /\ UNCHANGED <<orderVars, boot_pc, visited_boot, launched, supervisor,
                   thread_pc, shutdown_flag, tty_in_use, extVars>>

\* the supervised service, started through the registry at any time
NextLive ==
    \/ NextSup
    \/ \E n \in SupNames : ManagerStartSupervised(n)

SpecLive == InitSup /\ [][NextLive]_vars

----------------------------------------------------------------------------
(* loader.rs and parser.rs: load_services *)

Db == <<"d", "b">>
Tty == <<"t", "t", "y">>
Tty0 == <<"t", "t", "y", "0">>
Tty1 == <<"t", "t", "y", "1">>
Tty2 == <<"t", "t", "y", "2">>
Tty9 == <<"t", "t", "y", "9">>
TtyS0 == <<"t", "t", "y", "S", "0">>
DotVs == <<".", "v", "s">>
DotTxt == <<".", "t", "x", "t">>

\* str::contains(char)
ContainsChar(s, c) == \E i \in DOMAIN s : s[i] = c

\* str::starts_with
StartsWith(s, pat) == Len(s) >= Len(pat) /\ SubSeq(s, 1, Len(pat)) = pat

RECURSIVE ReplaceAll(_, _, _)
\* str::replace: every occurrence of pat, from the left, becomes rep
ReplaceAll(s, pat, rep) ==
    IF s = <<>> THEN <<>>
    ELSE IF StartsWith(s, pat)
         THEN rep \o ReplaceAll(SubSeq(s, Len(pat) + 1, Len(s)), pat, rep)
         ELSE <<Head(s)>> \o ReplaceAll(Tail(s), pat, rep)

\* Path::extension: what follows the last dot of the file name
Extension(filename) ==
    IF ContainsChar(filename, ".")
    THEN LET dot == CHOOSE i \in DOMAIN filename :
                        filename[i] = "." /\ \A j \in (i + 1)..Len(filename) : filename[j] # "."
         IN Some(SubSeq(filename, dot + 1, Len(filename)))
    ELSE None

AsciiDigits == <<"0", "1", "2", "3", "4", "5", "6", "7", "8", "9">>

\* char::is_ascii_digit
IsAsciiDigit(c) == \E i \in DOMAIN AsciiDigits : AsciiDigits[i] = c

RECURSIVE ParseU32(_)
\* str::parse::<u32> of a string of digits
ParseU32(ds) ==
    IF ds = <<>> THEN 0
    ELSE 10 * ParseU32(SubSeq(ds, 1, Len(ds) - 1))
         + (CHOOSE i \in DOMAIN AsciiDigits : AsciiDigits[i] = ds[Len(ds)]) - 1

\* loader.rs 94-98: the entry of /dev is one of tty1 .. tty6
IsTtyDevice(name) ==
    /\ StartsWith(name, Tty)
    /\ \A i \in 4..Len(name) : IsAsciiDigit(name[i])
    /\ Len(name) > 3
    /\ ParseU32(SubSeq(name, 4, Len(name))) >= 1
    /\ ParseU32(SubSeq(name, 4, Len(name))) <= 6

RECURSIVE find_tty_devices(_)
\* loader.rs 87-104: the tty devices among the entries of /dev, in their order
find_tty_devices(entries) ==
    IF entries = <<>> THEN <<>>
    ELSE IF IsTtyDevice(Head(entries))
         THEN <<Head(entries)>> \o find_tty_devices(Tail(entries))
         ELSE find_tty_devices(Tail(entries))

\* parser.rs 13-21: every "{id}" of the text becomes the value of id
apply_template(text, tvars) ==
    IF tvars = None THEN text
    ELSE [i \in DOMAIN text |-> IF text[i] = "{id}" THEN Unwrap(tvars) ELSE text[i]]

\* parser.rs 33: Err(BloomError::Io)
ErrIo == [kind |-> "Err", error |-> "Io"]
\* parser.rs 183-187
ErrMissingName == [kind |-> "Err", error |-> "Custom", msg |-> "missing required 'name'"]
\* parser.rs 188-192
ErrMissingCmd == [kind |-> "Err", error |-> "Custom", msg |-> "missing required 'cmd'"]

\* parser.rs 209-211: the priority of a file that sets none
ParserDefaultPriority == 50

\* a variant that accepts a file without a cmd
parse_service_file_lenient(file, tvars) ==
    IF ~file.readable THEN ErrIo
    ELSE IF file.name = <<>> THEN ErrMissingName
    ELSE [kind |-> "Ok",
          service |-> [name |-> file.name, cmd |-> apply_template(file.cmd, tvars),
                       priority |-> Some(ParserDefaultPriority),
                       dependencies |-> file.dependencies,
                       instances |-> file.instances, startup_package |-> None]]

\* parser.rs 24-220: parse_service_file on the file, with the variable id
\* set to Unwrap(tvars) for a template
parse_service_file(file, tvars) ==
    IF ~file.readable THEN ErrIo
    ELSE IF file.name = <<>> THEN ErrMissingName
    ELSE IF file.cmd = <<>> THEN ErrMissingCmd
    ELSE [kind |-> "Ok",
          service |-> [name |-> file.name, cmd |-> apply_template(file.cmd, tvars),
                       priority |-> Some(ParserDefaultPriority),
                       dependencies |-> file.dependencies,
                       instances |-> file.instances, startup_package |-> None]]

\* loader.rs 47: the name of an instance of a template
InstanceName(filename, id) ==
    ReplaceAll(ReplaceAll(filename, <<"@">>, <<"@">> \o id), DotVs, <<>>)

RECURSIVE ExpandTemplate(_, _)
\* loader.rs 41-60: one descriptor for every id for which the file parses
ExpandTemplate(file, ids) ==
    IF ids = <<>> THEN <<>>
    ELSE LET p == parse_service_file(file, Some(Head(ids))) IN
         (IF p.kind = "Ok"
          THEN <<[p.service EXCEPT !.name = InstanceName(file.filename, Head(ids))]>>
          ELSE <<>>)
         \o ExpandTemplate(file, Tail(ids))

\* loader.rs 41: the ids a template is expanded over
TemplateIds(file, dev) == find_tty_devices(dev)

\* loader.rs 37-73: what one directory entry adds to the vector of services
LoadFile(file, dev) ==
    IF Extension(file.filename) # Some(<<"v", "s">>) THEN <<>>
    ELSE IF ContainsChar(file.filename, "@")
         THEN ExpandTemplate(file, TemplateIds(file, dev))
         ELSE LET p == parse_service_file(file, None) IN
              IF p.kind = "Ok" THEN <<p.service>> ELSE <<>>

RECURSIVE LoadAll(_, _)
\* loader.rs 33-75: the vector of services after the loop over the directory
LoadAll(dir, dev) ==
    IF dir = <<>> THEN <<>>
    ELSE LoadFile(Head(dir), dev) \o LoadAll(Tail(dir), dev)

\* loader.rs 15-85: every result load_services can return
LoadResults(dir, dev) == OrderResults(LoadAll(dir, dev))

\* the files a directory can hold: a file that cannot be read has no content
PlainFiles ==
    {[filename |-> f, readable |-> TRUE, name |-> n, cmd |-> c, instances |-> None,
      dependencies |-> d] :
        f \in {Web \o DotVs, Db \o DotVs, Web \o DotTxt}, n \in {<<>>, Web, Db},
        c \in {<<>>, <<"run">>}, d \in {None, Some(<<Web>>), Some(<<Db>>)}}
TemplateFiles ==
    {[filename |-> Tty \o <<"@">> \o DotVs, readable |-> TRUE, name |-> n, cmd |-> c,
      instances |-> i, dependencies |-> None] :
        n \in {<<>>, Tty}, c \in {<<>>, <<"agetty", "{id}">>},
        i \in {None, Some(<<Tty1>>), Some(<<Tty1, Tty9>>)}}
UnreadableFiles ==
    {[filename |-> f, readable |-> FALSE, name |-> <<>>, cmd |-> <<>>,
      instances |-> None, dependencies |-> None] :
        f \in {Web \o DotVs, Db \o DotVs, Tty \o <<"@">> \o DotVs}}
Files == PlainFiles \cup TemplateFiles \cup UnreadableFiles

\* the directories: no two entries of a directory have the same file name
Directories ==
    UNION {{d \in [1..k -> Files] :
               \A i, j \in 1..k : i # j => d[i].filename # d[j].filename} :
           k \in 0..MaxFiles}

\* what /dev can hold
DevChoices == {<<>>, <<Tty1>>, <<Tty2, Tty1>>, <<TtyS0, Tty0, Tty1>>}

\* the directory and /dev are as the system has them; nothing is loaded yet
InitLoad ==
    /\ directory \in Directories
    /\ dev_entries \in DevChoices
    /\ produced = <<>>
    /\ services = <<>>
    /\ order_result = NotCalled
    /\ boot_pc = "readdir"
    /\ supervisors = <<>>
    /\ visited_boot = {}
    /\ launched = <<>>
    /\ NoSupervision
    /\ MgrIdle
    /\ last_register = None
    /\ last_stop = None
    /\ StopIdle
    /\ CtlIdle

\* loader.rs 15-85: a call of load_services
LoadServices ==
    /\ boot_pc = "readdir"
    /\ produced' = [i \in DOMAIN directory |-> LoadFile(directory[i], dev_entries)]
    /\ services' = LoadAll(directory, dev_entries)
    /\ \E r \in LoadResults(directory, dev_entries) :
         /\ order_result' = r
         /\ boot_pc' = IF r.kind = "Ok" THEN "loaded" ELSE "load_failed"
    /\ UNCHANGED <<directory, dev_entries, supervisors, visited_boot, launched,
                   supVars, mgrVars, last_register, last_stop, stopVars, ctlVars>>

NextLoad == LoadServices

SpecLoad == InitLoad /\ [][NextLoad]_vars

----------------------------------------------------------------------------
(* ipc_server.rs: the control endpoint and its shutdown threads *)

\* bloom ipc.rs 20-24 and 32-50: the variants of IpcTarget and IpcCommand
IpcTargets == {"Init", "Verdantd"}
IpcCommands == {"Shutdown", "Reboot", "StartService", "StopService",
                "RestartService", "EnableService", "DisableService",
                "GetStatus", "GetServiceStatus", "Internal"}

\* the lines a client can send: json says whether the line is well-formed
\* JSON with the two fields; the variant names are the client's
WireMessages ==
    {[json |-> TRUE, target |-> t, command |-> c] :
        t \in IpcTargets, c \in {"Shutdown", "Reboot", "GetStatus"}}
    \cup {[json |-> FALSE, target |-> "Verdantd", command |-> "Shutdown"],
          [json |-> TRUE, target |-> "Verdantd", command |-> "Halt"],
          [json |-> TRUE, target |-> "Nobody", command |-> "Reboot"]}

\* ipc_server.rs 106: serde_json::from_slice::<IpcRequest>
ParseRequest(msg) ==
    IF msg.json /\ msg.target \in IpcTargets /\ msg.command \in IpcCommands
    THEN [kind |-> "Ok", request |-> [target |-> msg.target, command |-> msg.command]]
    ELSE [kind |-> "Err"]

\* a variant that takes every command for a shutdown
IsShutdownOrRebootAny(command) == TRUE

\* ipc_server.rs 121: the arm IpcCommand::Shutdown | IpcCommand::Reboot
IsShutdownOrReboot(command) == command \in {"Shutdown", "Reboot"}

\* a variant that reports a failure
AckFailure(command) == [success |-> FALSE, message |-> command \o " initiated"]

\* ipc_server.rs 123-127: the acknowledgement, format!("{:?} initiated")
Ack(command) == [success |-> TRUE, message |-> command \o " initiated"]

\* ipc_server.rs 109-113
InvalidRequest == [success |-> FALSE, message |-> "Invalid IPC request"]

\* ipc_server.rs 203-207
Unsupported == [success |-> FALSE, message |-> "Unsupported command"]

\* ipc_server.rs 106-210: the response handle_client writes for a line
ResponseTo(msg) ==
    LET p == ParseRequest(msg) IN
    IF p.kind = "Err" THEN InvalidRequest
    ELSE IF IsShutdownOrReboot(p.request.command) THEN Ack(p.request.command)
    ELSE Unsupported

\* ipc_server.rs 136: whether handle_client spawns a shutdown thread
Accepted(msg) ==
    LET p == ParseRequest(msg) IN
    p.kind = "Ok" /\ IsShutdownOrReboot(p.request.command)

\* the threads: the main thread and the shutdown thread of request i
MainThread == <<"main">>
ShutdownThread(i) == <<"shutdown", i>>

\* an entry of the history
Event(ev, req, ok, text, target, name) ==
    [ev |-> ev, req |-> req, ok |-> ok, text |-> text, target |-> target, name |-> name]

NoThread == [pc |-> "none", command |-> "", todo |-> {}, cur |-> None]

\* the descriptors of the registry the endpoint serves
CtlServices ==
    {[name |-> n, restart |-> "Never", restart_delay |-> Some(1), stop_cmd |-> c] :
        n \in {Web, TtyInstance}, c \in StopCmds}

\* the services are registered, none is started, the endpoint listens
InitCtl ==
    /\ \E names \in (SUBSET {Web, TtyInstance}) \ {{}} :
         \E pick \in [names -> CtlServices] :
            /\ \A n \in names : pick[n].name = n
            /\ supervisors = [n \in names |-> NewSupervisor(pick[n])]
    /\ supervisor = <<>>
    /\ thread_pc = "unspawned"
    /\ procs = <<>>
    /\ shutdown_flag = FALSE
    /\ tty_in_use = FALSE
    /\ launch_log = <<>>
    /\ ExtIdle
    /\ services = <<>>
    /\ order_result = NotCalled
    /\ boot_pc = "off"
    /\ visited_boot = {}
    /\ launched = <<>>

\* what no step of the endpoint and its threads changes
ctlFrame == <<orderVars, boot_pc, visited_boot, launched, supervisor, thread_pc,
              tty_in_use, spawn_log, supervise_calls, shutdown_log, last_register,
              last_stop, stopVars, loadVars, poisoned>>

\* supervisor.rs 42-53: Supervisor::start up to the call of start_service,
\* with the file logger locked; services are started before the endpoint
\* accepts its first client
CtlStartBegin(n) ==
    /\ requests = <<>>
    /\ ctl_starting = None
    /\ n \in DOMAIN supervisors
    /\ supervisors[n].child = None /\ supervisors[n].state = "Stopped"
    /\ logger_locks.file = None
    /\ logger_locks' = [logger_locks EXCEPT !.file = Some(MainThread)]
    /\ supervisors' = [supervisors EXCEPT ![n].state = "Starting"]
    /\ ctl_starting' = Some(n)
    /\ UNCHANGED <<ctlFrame, procs, launch_log, shutdown_flag, handles, requests,
                   ctl_trace, sd, registry_lock>>

\* supervisor.rs 53-60: start_service returns, the lock is dropped
CtlStartEnd ==
    /\ ctl_starting # None
    /\ LET n == Unwrap(ctl_starting) IN
       \E launch \in LaunchResults :
         LET r == SupStart(supervisors[n], launch) IN
         /\ supervisors' = [supervisors EXCEPT ![n] = r.sup]
         /\ Spawned(r, "manager")
    /\ logger_locks' = [logger_locks EXCEPT !.file = None]
    /\ ctl_starting' = None
    /\ UNCHANGED <<ctlFrame, shutdown_flag, handles, requests, ctl_trace, sd,
                   registry_lock>>

\* a connection that has sent no line: nothing parsed, nothing written
NoLine == [json |-> FALSE, target |-> "", command |-> ""]
NoResponse == [success |-> FALSE, message |-> ""]

\* ipc_server.rs 56-60 and 102: run_ipc_server calls handle_client in the
\* loop over listener.incoming(), and read_until returns only with a newline
\* or the end of the stream: the loop is in the read of the last connection
Stalled == requests # <<>> /\ requests[Len(requests)].response = NoResponse

\* ipc_server.rs 94-211: handle_client reads a line, answers it and, for an
\* accepted request, spawns the shutdown thread
HandleClient(msg) ==
    /\ Len(requests) < MaxRequests
    /\ ctl_starting = None
    /\ ~Stalled
    /\ LET i == Len(requests) + 1
           resp == ResponseTo(msg) IN
       /\ requests' = Append(requests, [wire |-> msg, response |-> resp])
       /\ ctl_trace' = Append(ctl_trace,
                              Event("response", i, resp.success, resp.message, "", <<>>))
       /\ sd' = Append(sd, IF Accepted(msg)
                           THEN [NoThread EXCEPT !.pc = "spawned",
                                                 !.command = ParseRequest(msg).request.command]
                           ELSE NoThread)
    /\ UNCHANGED <<ctlFrame, supervisors, procs, launch_log, shutdown_flag, handles,
                   registry_lock, logger_locks, ctl_starting>>

\* ipc_server.rs 137: the thread stores true into shutdown_flag
SdStoreFlag(i) ==
    /\ sd[i].pc = "spawned"
    /\ shutdown_flag' = TRUE
    /\ sd' = [sd EXCEPT ![i].pc = "flagged"]
    /\ ctl_trace' = Append(ctl_trace, Event("flag", i, TRUE, "", "", <<>>))
    /\ UNCHANGED <<ctlFrame, supervisors, procs, launch_log, handles, requests,
                   registry_lock, logger_locks, ctl_starting>>

\* ipc_server.rs 139-142: sm.lock() gives the guard, or an error when the
\* mutex is poisoned; the thread waits while another thread holds the mutex
SdLock(i) ==
    /\ sd[i].pc = "flagged"
    /\ registry_lock.holder = None
    /\ IF registry_lock.poisoned
       THEN /\ sd' = [sd EXCEPT ![i].pc = "returned"]
            /\ UNCHANGED registry_lock
       ELSE /\ sd' = [sd EXCEPT ![i].pc = "locked", ![i].todo = DOMAIN supervisors]
            /\ registry_lock' = [registry_lock EXCEPT !.holder = Some(ShutdownThread(i))]
    /\ UNCHANGED <<ctlFrame, supervisors, procs, launch_log, shutdown_flag, handles,
                   requests, ctl_trace, logger_locks, ctl_starting>>

\* manager.rs 162-163 and supervisor.rs 63-69: the loop of
\* ServiceManager::shutdown reaches a supervisor with a child; Supervisor::stop
\* locks both loggers and calls stop_service
SdStopBegin(i, n) ==
    /\ sd[i].pc = "locked"
    /\ n \in sd[i].todo
    /\ IsSome(supervisors[n].child)
    /\ logger_locks = [console |-> None, file |-> None]
    /\ logger_locks' = [console |-> Some(ShutdownThread(i)),
                        file |-> Some(ShutdownThread(i))]
    /\ supervisors' = [supervisors EXCEPT ![n].state = "Stopping"]
    /\ sd' = [sd EXCEPT ![i].pc = "stopping", ![i].cur = Some(n)]
    /\ ctl_trace' = Append(ctl_trace, Event("stop", i, TRUE, "", "", n))
    /\ UNCHANGED <<ctlFrame, procs, launch_log, shutdown_flag, handles, requests,
                   registry_lock, ctl_starting>>

\* supervisor.rs 69-76: stop_service returns, the locks are dropped
SdStopEnd(i) ==
    /\ sd[i].pc = "stopping"
    /\ LET n == Unwrap(sd[i].cur) IN
       \E sh_ok \in BOOLEAN, term \in TermReactions :
         LET r == SupShutdown(supervisors[n], procs, sh_ok, term) IN
         /\ supervisors' = [supervisors EXCEPT ![n] = r.sup]
         /\ procs' = r.procs
         /\ sd' = [sd EXCEPT ![i].pc = "locked", ![i].cur = None,
                             ![i].todo = sd[i].todo \ {n}]
    /\ logger_locks' = [console |-> None, file |-> None]
    /\ UNCHANGED <<ctlFrame, launch_log, shutdown_flag, handles, requests, ctl_trace,
                   registry_lock, ctl_starting>>

\* supervisor.rs 77-82: the supervisor has no child, stop returns an error
SdStopNone(i, n) ==
    /\ sd[i].pc = "locked"
    /\ n \in sd[i].todo
    /\ supervisors[n].child = None
    /\ sd' = [sd EXCEPT ![i].todo = sd[i].todo \ {n}]
    /\ ctl_trace' = Append(ctl_trace, Event("stop", i, FALSE, "", "", n))
    /\ UNCHANGED <<ctlFrame, supervisors, procs, launch_log, shutdown_flag, handles,
                   requests, registry_lock, logger_locks, ctl_starting>>

\* manager.rs 177-216: the handles are drained, the registry is cleared and
\* ServiceManager::shutdown returns
SdShutdownReturn(i) ==
    /\ sd[i].pc = "locked"
    /\ sd[i].todo = {}
    /\ handles' = {}
    /\ supervisors' = ClearSupervisors(supervisors)
    /\ sd' = [sd EXCEPT ![i].pc = "shut"]
    /\ ctl_trace' = Append(ctl_trace, Event("shutdown_returned", i, TRUE, "", "", <<>>))
    /\ UNCHANGED <<ctlFrame, procs, launch_log, shutdown_flag, requests,
                   registry_lock, logger_locks, ctl_starting>>

\* ipc_server.rs 162-167 and bloom ipc.rs 94-101: the request to init is
\* written to the init socket
SdForward(i) ==
    /\ sd[i].pc = "shut"
    /\ sd' = [sd EXCEPT ![i].pc = "forwarded"]
    /\ ctl_trace' = Append(ctl_trace,
                           Event("forward", i, TRUE, sd[i].command, "Init", <<>>))
    /\ UNCHANGED <<ctlFrame, supervisors, procs, launch_log, shutdown_flag, handles,
                   requests, registry_lock, logger_locks, ctl_starting>>

\* what comes back from init: a success, a refusal or no line at all
InitReplies == {"success", "rejected", "error"}

\* bloom ipc.rs 103-107: send_ipc_request reads the reply line
SdReply(i) ==
    /\ sd[i].pc = "forwarded"
    /\ \E reply \in InitReplies :
         ctl_trace' = Append(ctl_trace,
                             Event("reply", i, reply = "success", reply, "Init", <<>>))
    /\ sd' = [sd EXCEPT ![i].pc = "replied"]
    /\ UNCHANGED <<ctlFrame, supervisors, procs, launch_log, shutdown_flag, handles,
                   requests, registry_lock, logger_locks, ctl_starting>>

\* what Mutex::lock does in the thread that holds the mutex: the language
\* leaves it open, the call does not return
RelockOutcomes == {"deadlock", "panic"}

\* ipc_server.rs 174-194: every arm calls sm.lock() while sm_guard is alive.
\* A panic unwinds the thread, which drops the guard and poisons the mutex.
SdRelock(i) ==
    /\ sd[i].pc = "replied"
    /\ \E outcome \in RelockOutcomes :
         IF outcome = "deadlock"
         THEN /\ sd' = [sd EXCEPT ![i].pc = "deadlocked"]
              /\ UNCHANGED registry_lock
         ELSE /\ sd' = [sd EXCEPT ![i].pc = "panicked"]
              /\ registry_lock' = [holder |-> None, poisoned |-> TRUE]
    /\ UNCHANGED <<ctlFrame, supervisors, procs, launch_log, shutdown_flag, handles,
                   requests, ctl_trace, logger_locks, ctl_starting>>

\* the steps of the shutdown thread of request i
ShutdownThreadStep(i) ==
    \/ SdStoreFlag(i)
    \/ SdLock(i)
    \/ \E n \in DOMAIN supervisors : SdStopBegin(i, n)
    \/ SdStopEnd(i)
    \/ \E n \in DOMAIN supervisors : SdStopNone(i, n)
    \/ SdShutdownReturn(i)
    \/ SdForward(i)
    \/ SdReply(i)
    \/ SdRelock(i)

NextCtl ==
    \/ \E n \in DOMAIN supervisors : CtlStartBegin(n)
    \/ CtlStartEnd
    \/ \E msg \in WireMessages : HandleClient(msg)
    \/ \E i \in DOMAIN sd : ShutdownThreadStep(i)

SpecCtl == InitCtl /\ [][NextCtl]_vars

\* ipc_server.rs 56-60 and 100-102: a client connects and sends nothing;
\* the connection is accepted and handle_client waits in read_until
AcceptSilent ==
    /\ Len(requests) < MaxRequests
    /\ ctl_starting = None
    /\ ~Stalled
    /\ requests' = Append(requests, [wire |-> NoLine, response |-> NoResponse])
    /\ sd' = Append(sd, NoThread)
    /\ UNCHANGED <<ctlFrame, supervisors, procs, launch_log, shutdown_flag, handles,
                   ctl_trace, registry_lock, logger_locks, ctl_starting>>

\* ipc_server.rs 102-115: the silent client closes the connection; read_until
\* returns what it has, which does not parse, and the answer is written
SilentCloses ==
    /\ Stalled
    /\ requests' = [requests EXCEPT ![Len(requests)].response = InvalidRequest]
    /\ ctl_trace' = Append(ctl_trace,
                           Event("response", Len(requests), FALSE,
                                 InvalidRequest.message, "", <<>>))
    /\ UNCHANGED <<ctlFrame, supervisors, procs, launch_log, shutdown_flag, handles,
                   sd, registry_lock, logger_locks, ctl_starting>>

\* the endpoint with clients that connect and stay silent
NextAccept ==
    \/ NextCtl
    \/ AcceptSilent
    \/ SilentCloses

SpecAccept == InitCtl /\ [][NextAccept]_vars

\* every thread that can take a step eventually takes one
SpecCtlFair ==
    /\ SpecCtl
    /\ \A i \in 1..MaxRequests : WF_vars(i \in DOMAIN sd /\ ShutdownThreadStep(i))
    /\ WF_vars(CtlStartEnd)

----------------------------------------------------------------------------
(* process.rs: stop_service step by step, with the time it takes *)

\* times are in units of 100 ms, the cadence of the poll loops
SecondTicks == 10
\* process.rs 141 and 190: sleep(Duration::from_millis(100))
PollInterval == 1
\* process.rs 178: kill_timeout = Duration::from_secs(2)
KillTimeout == 20
\* process.rs 105 and 132: timeout_stop.unwrap_or(5)
DefaultTimeoutStop == 5

\* process.rs 105 and 132: the timeout of the service, in 100 ms
TimeoutStop(service) == UnwrapOr(service.timeout_stop, DefaultTimeoutStop) * SecondTicks

TimeoutStops == {None, Some(1), Some(2)}
\* how long the stop command runs, in 100 ms; negative: it does not return
CmdTimes == {0, 10, -1}

\* the calls that are timed: the service, the child, the conduct of the stop
\* command (whether sh could be run, its run time) and of the child
StopCalls ==
    {[service |-> [name |-> Web, timeout_stop |-> t, stop_cmd |-> c],
      pid |-> 1, child |-> st, sh_ok |-> ok, cmd_left |-> ct, term |-> tr,
      result |-> "none"] :
        t \in TimeoutStops, c \in StopCmds, st \in {"running", "zombie", "reaped"},
        ok \in BOOLEAN, ct \in CmdTimes, tr \in TermReactions}

InitStop ==
    /\ stop_call \in {Some(c) : c \in {c \in StopCalls :
                         c.service.stop_cmd = None => (c.sh_ok /\ c.cmd_left = 0)}}
    /\ stop_pc = "called"
    /\ elapsed = 0
    /\ poll_start = 0
    /\ procs = <<[status |-> Unwrap(stop_call).child,
                  code |-> IF Unwrap(stop_call).child = "running" THEN "none" ELSE "0"]>>
    /\ supervisor = <<>>
    /\ thread_pc = "off"
    /\ shutdown_flag = FALSE
    /\ tty_in_use = FALSE
    /\ launch_log = <<>>
    /\ MgrIdle
    /\ last_register = None
    /\ last_stop = None
    /\ CtlIdle
    /\ LoadIdle
    /\ services = <<>>
    /\ order_result = NotCalled
    /\ boot_pc = "off"
    /\ supervisors = <<>>
    /\ visited_boot = {}
    /\ launched = <<>>

\* what a step of stop_service leaves alone
stopFrame == <<orderVars, bootVars, supervisor, thread_pc, shutdown_flag,
               tty_in_use, launch_log, mgrVars, last_register, last_stop, ctlVars,
               loadVars>>

TheCall == Unwrap(stop_call)

Return(result) ==
    /\ stop_pc' = "returned"
    /\ stop_call' = Some([TheCall EXCEPT !.result = result])

\* process.rs 85-93: with a stop command the shell is run, or cannot be run
StopCmdStart ==
    /\ stop_pc = "called"
    /\ IF IsSome(TheCall.service.stop_cmd)
       THEN IF TheCall.sh_ok
            THEN stop_pc' = "stop_cmd" /\ UNCHANGED stop_call
            ELSE Return("Err")
       ELSE stop_pc' = "sigterm" /\ UNCHANGED stop_call
    /\ UNCHANGED <<stopFrame, procs, elapsed, poll_start>>

\* process.rs 89-92: status() waits for the stop command as long as it runs
StopCmdRuns ==
    /\ stop_pc = "stop_cmd"
    /\ TheCall.cmd_left # 0
    /\ elapsed < MaxElapsed
    /\ elapsed' = elapsed + 1
    /\ stop_call' = IF TheCall.cmd_left < 0 THEN stop_call
                    ELSE Some([TheCall EXCEPT !.cmd_left = @ - 1])
    /\ UNCHANGED <<stopFrame, procs, stop_pc, poll_start>>

\* process.rs 95-105: the stop command has ended; sleep(timeout_stop)
StopCmdSleep ==
    /\ stop_pc = "stop_cmd"
    /\ TheCall.cmd_left = 0
    /\ elapsed' = elapsed + TimeoutStop(TheCall.service)
    /\ stop_pc' = "sigterm"
    /\ UNCHANGED <<stopFrame, procs, stop_call, poll_start>>

\* process.rs 112-133: SIGTERM
StopSigterm ==
    /\ stop_pc = "sigterm"
    /\ IF ~KillOk(procs, TheCall.pid)
       THEN Return("Ok") /\ UNCHANGED <<procs, poll_start>>
       ELSE /\ procs' = IF TheCall.term = "ignored" THEN procs
                        ELSE Terminate(procs, TheCall.pid, TheCall.term)
            /\ poll_start' = elapsed
            /\ stop_pc' = "poll_term"
            /\ UNCHANGED stop_call
    /\ UNCHANGED <<stopFrame, elapsed>>

\* process.rs 135-158: one iteration of the poll after SIGTERM
StopPollTerm ==
    /\ stop_pc = "poll_term"
    /\ IF ~KillOk(procs, TheCall.pid)
       THEN Return("Ok") /\ UNCHANGED elapsed
       ELSE IF elapsed - poll_start >= TimeoutStop(TheCall.service)
            THEN stop_pc' = "sigkill" /\ UNCHANGED <<stop_call, elapsed>>
            ELSE elapsed' = elapsed + PollInterval /\ UNCHANGED <<stop_call, stop_pc>>
    /\ UNCHANGED <<stopFrame, procs, poll_start>>

\* process.rs 160-179: SIGKILL
StopSigkill ==
    /\ stop_pc = "sigkill"
    /\ IF ~KillOk(procs, TheCall.pid)
       THEN Return("Ok") /\ UNCHANGED <<procs, poll_start>>
       ELSE /\ procs' = Terminate(procs, TheCall.pid, "sig")
            /\ poll_start' = elapsed
            /\ stop_pc' = "poll_kill"
            /\ UNCHANGED stop_call
    /\ UNCHANGED <<stopFrame, elapsed>>

\* process.rs 181-207: one iteration of the poll after SIGKILL
StopPollKill ==
    /\ stop_pc = "poll_kill"
    /\ IF ~KillOk(procs, TheCall.pid)
       THEN Return("Ok") /\ UNCHANGED elapsed
       ELSE IF elapsed - poll_start >= KillTimeout
            THEN Return("Err") /\ UNCHANGED elapsed
            ELSE elapsed' = elapsed + PollInterval /\ UNCHANGED <<stop_call, stop_pc>>
    /\ UNCHANGED <<stopFrame, procs, poll_start>>

NextStop ==
    \/ StopCmdStart
    \/ StopCmdRuns
    \/ StopCmdSleep
    \/ StopSigterm
    \/ StopPollTerm
    \/ StopSigkill
    \/ StopPollKill

SpecStop == InitStop /\ [][NextStop]_vars

----------------------------------------------------------------------------
(* manager.rs: ServiceManager::shutdown step by step, with the time it takes *)

\* manager.rs 177: join_timeout = Duration::from_secs(10), in 100 ms
JoinTimeoutTicks == 100

\* manager.rs 177-206: how the bounded join of a supervisor thread ends
JoinOutcomes == {"joined", "timeout"}

\* the registry holds one supervisor whose child was started through the
\* registry; a supervisor thread may exist as well.  shutdown is about to be
\* called.
InitShut ==
    /\ stop_call \in {Some(c) : c \in {c \in StopCalls :
                         /\ c.service.stop_cmd = None => (c.sh_ok /\ c.cmd_left = 0)
                         /\ c.child # "reaped"}}
    /\ stop_pc = "shutdown"
    /\ elapsed = 0
    /\ poll_start = 0
    /\ procs = <<[status |-> Unwrap(stop_call).child,
                  code |-> IF Unwrap(stop_call).child = "running" THEN "none" ELSE "0"]>>
    /\ supervisors = [n \in {Unwrap(stop_call).service.name} |->
                        SupStart(NewSupervisor(Unwrap(stop_call).service),
                                 Some(Unwrap(stop_call).pid)).sup]
    /\ handles \in SUBSET {Unwrap(stop_call).service.name}
    /\ spawn_log = <<>>
    /\ supervise_calls = 0
    /\ shutdown_log = <<>>
    /\ supervisor = <<>>
    /\ thread_pc = "off"
    /\ shutdown_flag = FALSE
    /\ tty_in_use = FALSE
    /\ launch_log = <<>>
    /\ last_register = None
    /\ last_stop = None
    /\ CtlIdle
    /\ LoadIdle
    /\ services = <<>>
    /\ order_result = NotCalled
    /\ boot_pc = "off"
    /\ visited_boot = {}
    /\ launched = <<>>

\* what a step of ServiceManager::shutdown outside stop_service leaves alone
shutFrame == <<orderVars, boot_pc, visited_boot, launched, supervisor, thread_pc,
               procs, tty_in_use, launch_log, spawn_log, supervise_calls,
               last_register, last_stop, stop_call, poll_start, ctlVars, loadVars>>

\* manager.rs 159-163 and supervisor.rs 63-69: the flag is stored, and the
\* supervisor of the registry is shut down: Stopping, then stop_service
ShutdownBegin ==
    /\ stop_pc = "shutdown"
    /\ shutdown_flag' = TRUE
    /\ supervisors' = [n \in DOMAIN supervisors |->
                         [supervisors[n] EXCEPT !.state = "Stopping"]]
    /\ stop_pc' = "called"
    /\ UNCHANGED <<shutFrame, handles, shutdown_log, elapsed>>

\* supervisor.rs 69-76 and manager.rs 163-168: stop_service has returned; its
\* error is logged and the loop over the supervisors goes on
ShutdownAfterStop ==
    /\ stop_pc = "returned"
    /\ supervisors' = [n \in DOMAIN supervisors |->
                         IF TheCall.result = "Ok"
                         THEN [supervisors[n] EXCEPT !.child = None, !.state = "Stopped"]
                         ELSE supervisors[n]]
    /\ stop_pc' = "joining"
    /\ UNCHANGED <<shutFrame, shutdown_flag, handles, shutdown_log, elapsed>>

\* manager.rs 177-206: every handle is drained and joined with a bounded
\* wait; a join that times out is logged and the loop goes on
ShutdownJoin ==
    /\ stop_pc = "joining"
    /\ \E outcome \in JoinOutcomes :
         elapsed' = IF handles # {} /\ outcome = "timeout"
                    THEN elapsed + JoinTimeoutTicks
                    ELSE elapsed
    /\ handles' = {}
    /\ stop_pc' = "joined"
    /\ UNCHANGED <<shutFrame, shutdown_flag, supervisors, shutdown_log>>

\* manager.rs 208-216: the supervisors are cleared and shutdown returns Ok
ShutdownReturn ==
    /\ stop_pc = "joined"
    /\ supervisors' = ClearSupervisors(supervisors)
    /\ shutdown_log' = Append(shutdown_log, [result |-> "Ok", elapsed |-> elapsed])
    /\ stop_pc' = "done"
    /\ UNCHANGED <<shutFrame, shutdown_flag, handles, elapsed>>

\* the steps of the thread that called ServiceManager::shutdown
ShutdownCall ==
    \/ ShutdownBegin
    \/ NextStop
    \/ ShutdownAfterStop
    \/ ShutdownJoin
    \/ ShutdownReturn

NextShut ==
    \/ ShutdownBegin
    \/ StopCmdStart
    \/ StopCmdRuns
    \/ StopCmdSleep
    \/ StopSigterm
    \/ StopPollTerm
    \/ StopSigkill
    \/ StopPollKill
    \/ ShutdownAfterStop
    \/ ShutdownJoin
    \/ ShutdownReturn

SpecShut == InitShut /\ [][NextShut]_vars

\* the thread that called shutdown is scheduled
SpecShutFair == SpecShut /\ WF_vars(ShutdownCall)

----------------------------------------------------------------------------
(* supervisor.rs: the stop path of supervise_loop step by step *)

\* supervisor.rs 184: wait_for_exit_with_timeout(Duration::from_secs(5)), in
\* 100 ms
WaitTimeoutTicks == 50

\* a supervisor thread is at the head of its loop with a child that runs, in
\* state Starting or Running; no shutdown has been requested
InitFan ==
    /\ stop_call \in {Some(c) : c \in {c \in StopCalls :
                         /\ c.service.stop_cmd = None => (c.sh_ok /\ c.cmd_left = 0)
                         /\ c.child = "running"}}
    /\ stop_pc = "off"
    /\ elapsed = 0
    /\ poll_start = 0
    /\ procs = <<NewProcess>>
    /\ \E state \in {"Starting", "Running"} :
         supervisor = [SupStart(NewSupervisor(Unwrap(stop_call).service),
                                Some(Unwrap(stop_call).pid)).sup
                          EXCEPT !.state = state]
    /\ thread_pc = "loop"
    /\ supervisors = [n \in {Unwrap(stop_call).service.name} |->
                        NewSupervisor(Unwrap(stop_call).service)]
    /\ handles = {Unwrap(stop_call).service.name}
    /\ spawn_log = <<Unwrap(stop_call).service.name>>
    /\ supervise_calls = 0
    /\ shutdown_log = <<>>
    /\ shutdown_flag = FALSE
    /\ tty_in_use = FALSE
    /\ launch_log = <<>>
    /\ last_register = None
    /\ last_stop = None
    /\ CtlIdle
    /\ LoadIdle
    /\ services = <<>>
    /\ order_result = NotCalled
    /\ boot_pc = "off"
    /\ visited_boot = {}
    /\ launched = <<>>

\* what the stop path of the thread leaves alone outside stop_service
fanFrame == <<orderVars, bootVars, shutdown_flag, tty_in_use, launch_log, mgrVars,
              last_register, last_stop, stop_call, poll_start, ctlVars, loadVars>>

\* supervisor.rs 171-183 and 63-69: the flag is seen; shutdown calls stop,
\* which sets Stopping and calls stop_service
FanObserve ==
    /\ thread_pc = "loop"
    /\ shutdown_flag
    /\ stop_pc = "off"
    /\ supervisor' = [supervisor EXCEPT !.state = "Stopping"]
    /\ thread_pc' = "stopping"
    /\ stop_pc' = "called"
    /\ UNCHANGED <<fanFrame, procs, elapsed>>

\* supervisor.rs 69-76 and 184-185: stop_service has returned; its result is
\* dropped, the bounded wait follows, and the loop is left
FanLeave ==
    /\ thread_pc = "stopping"
    /\ stop_pc = "returned"
    /\ \E outcome \in WaitOutcomes :
         LET stopped == IF TheCall.result = "Ok"
                        THEN [supervisor EXCEPT !.child = None, !.state = "Stopped"]
                        ELSE supervisor
             w == WaitForExit(stopped, procs, outcome) IN
         /\ supervisor' = w.sup
         /\ procs' = w.procs
         /\ elapsed' = IF IsSome(w.sup.child) THEN elapsed + WaitTimeoutTicks
                        ELSE elapsed
    /\ thread_pc' = "done"
    /\ stop_pc' = "off"
    /\ UNCHANGED fanFrame

\* the steps of the supervisor thread on its stop path
FanThread ==
    \/ FanObserve
    \/ NextStop
    \/ FanLeave

NextFan ==
    \/ RequestShutdown
    \/ FanObserve
    \/ StopCmdStart
    \/ StopCmdRuns
    \/ StopCmdSleep
    \/ StopSigterm
    \/ StopPollTerm
    \/ StopSigkill
    \/ StopPollKill
    \/ FanLeave

SpecFan == InitFan /\ [][NextFan]_vars

\* the supervisor thread is scheduled
SpecFanFair == SpecFan /\ WF_vars(FanThread)

----------------------------------------------------------------------------
(* manager.rs and supervisor.rs: a supervisor thread that panics *)

\* the logger mutexes a supervisor thread can hold when it panics: none, the
\* file logger (supervisor.rs 52, 89, 147, 173, 195, 211, 234, 305), or both
\* loggers (supervisor.rs 65-66)
HeldAtPanic == {{}, {"file"}, {"console", "file"}}

\* the services of the registry: web is supervised by the thread that may
\* panic; db was added and started through the registry afterwards
PanicServices(c) ==
    [n \in {Web, Db} |->
        [name |-> n, restart |-> "Always", restart_delay |-> Some(1), stop_cmd |-> c]]

\* the thread of web is in its loop, with or without a child; db runs;
\* ServiceManager::shutdown is about to be called
InitPanic ==
    /\ \E c \in StopCmds, with_child \in BOOLEAN :
         /\ supervisors = [n \in {Web, Db} |->
                             IF n = Db
                             THEN SupStart(NewSupervisor(PanicServices(c)[n]), Some(1)).sup
                             ELSE NewSupervisor(PanicServices(c)[n])]
         /\ supervisor = IF with_child
                         THEN SupStart(NewSupervisor(PanicServices(c)[Web]), Some(2)).sup
                         ELSE NewSupervisor(PanicServices(c)[Web])
         /\ procs = IF with_child THEN <<NewProcess, NewProcess>> ELSE <<NewProcess>>
    /\ thread_pc = "loop"
    /\ handles = {Web}
    /\ spawn_log = <<>>
    /\ supervise_calls = 0
    /\ shutdown_log = <<>>
    /\ shutdown_flag = FALSE
    /\ tty_in_use = FALSE
    /\ launch_log = <<>>
    /\ last_register = None
    /\ last_stop = None
    /\ stop_call = None
    /\ stop_pc = "shutdown"
    /\ elapsed = 0
    /\ poll_start = 0
    /\ CtlIdle
    /\ LoadIdle
    /\ services = <<>>
    /\ order_result = NotCalled
    /\ boot_pc = "off"
    /\ visited_boot = {}
    /\ launched = <<>>

\* what no step of the panicking thread and of shutdown changes
panicFrame == <<orderVars, boot_pc, visited_boot, launched, supervisor, tty_in_use,
                launch_log, spawn_log, supervise_calls, last_register, last_stop,
                stop_call, elapsed, poll_start, requests, ctl_trace, sd,
                registry_lock, logger_locks, ctl_starting, loadVars>>

\* manager.rs 135-139: the closure of the thread calls supervise_loop with no
\* catch_unwind; a panic unwinds the thread, and every MutexGuard dropped
\* during the unwinding poisons its mutex
ThreadPanics(held) ==
    /\ thread_pc = "loop"
    /\ thread_pc' = "panicked"
    /\ poisoned' = poisoned \cup held
    /\ UNCHANGED <<panicFrame, supervisors, procs, handles, shutdown_flag,
                   shutdown_log, stop_pc>>

\* Mutex::lock().unwrap() panics when the mutex is poisoned
UnwrapPanics(mutexes) == mutexes \cap poisoned # {}

\* manager.rs 153-159: the file logger is locked with unwrap, then the flag
\* is stored
PanicShutBegin ==
    /\ stop_pc = "shutdown"
    /\ IF UnwrapPanics({"file"})
       THEN stop_pc' = "panicked" /\ UNCHANGED shutdown_flag
       ELSE stop_pc' = "stopping" /\ shutdown_flag' = TRUE
    /\ UNCHANGED <<panicFrame, thread_pc, poisoned, supervisors, procs, handles,
                   shutdown_log>>

\* manager.rs 162-174 and supervisor.rs 63-69, 85-99: the loop over the
\* supervisors; Supervisor::stop of one that has a child locks both loggers
\* with unwrap, Supervisor::shutdown locks the file logger with unwrap for
\* every supervisor, and the file logger is locked with unwrap after the loop
PanicShutStop ==
    /\ stop_pc = "stopping"
    /\ IF \E n \in DOMAIN supervisors :
            \/ IsSome(supervisors[n].child) /\ UnwrapPanics({"console", "file"})
            \/ UnwrapPanics({"file"})
       THEN /\ stop_pc' = "panicked"
            /\ UNCHANGED <<supervisors, procs>>
       ELSE \E order \in Perms(DOMAIN supervisors), sh_ok \in BOOLEAN,
               term \in TermReactions :
              LET r == ShutdownEach(supervisors, procs, order, sh_ok, term) IN
              /\ supervisors' = r.supervisors
              /\ procs' = r.procs
              /\ stop_pc' = IF UnwrapPanics({"file"}) THEN "panicked" ELSE "joining"
    /\ UNCHANGED <<panicFrame, thread_pc, poisoned, handles, shutdown_flag,
                   shutdown_log>>

\* manager.rs 179-206: every handle is joined; the join of a thread that
\* panicked returns its panic, which is printed
PanicShutJoin ==
    /\ stop_pc = "joining"
    /\ handles' = {}
    /\ shutdown_log' = Append(shutdown_log,
                              [joined |-> handles,
                               panics |-> IF thread_pc = "panicked"
                                          THEN handles \cap {Web} ELSE {}])
    /\ stop_pc' = "joined"
    /\ UNCHANGED <<panicFrame, thread_pc, poisoned, supervisors, procs,
                   shutdown_flag>>

\* manager.rs 209-216: the supervisors are cleared, the file logger is locked
\* with unwrap, and shutdown returns Ok
PanicShutReturn ==
    /\ stop_pc = "joined"
    /\ supervisors' = ClearSupervisors(supervisors)
    /\ stop_pc' = IF UnwrapPanics({"file"}) THEN "panicked" ELSE "done"
    /\ UNCHANGED <<panicFrame, thread_pc, poisoned, procs, handles, shutdown_flag,
                   shutdown_log>>

NextPanic ==
    \/ \E held \in HeldAtPanic : ThreadPanics(held)
    \/ PanicShutBegin
    \/ PanicShutStop
    \/ PanicShutJoin
    \/ PanicShutReturn

SpecPanic == InitPanic /\ [][NextPanic]_vars

----------------------------------------------------------------------------
(* The orderer's claims *)

Called == order_result # NotCalled
IsOk == order_result.kind = "Ok"

InputNames == {services[i].name : i \in DOMAIN services}
DistinctNames ==
    \A i, j \in DOMAIN services : i # j => services[i].name # services[j].name
DepSet(svc) == IF svc.dependencies = None THEN {} ELSE Range(Unwrap(svc.dependencies))
AllDepsPresent == \A i \in DOMAIN services : DepSet(services[i]) \subseteq InputNames

\* d -> n: some descriptor named n lists d among its dependencies
Edge(d, n) == \E i \in DOMAIN services : services[i].name = n /\ d \in DepSet(services[i])
Dependants(S) == {n \in InputNames : \E d \in S : Edge(d, n)}

RECURSIVE ReachFrom(_, _)
ReachFrom(frontier, seen) ==
    LET next == Dependants(frontier) \ seen
    IN IF next = {} THEN seen ELSE ReachFrom(next, seen \cup next)

\* the names reachable from n along one or more edges
Descendants(n) == ReachFrom(Dependants({n}), Dependants({n}))
HasCycle == \E n \in InputNames : n \in Descendants(n)

\* the (priority, name) key of the tie-break, a missing priority counting as 50
KeyLess(s, t) ==
    LET ps == UnwrapOr(s.priority, 50)
        pt == UnwrapOr(t.priority, 50)
    IN ps < pt \/ (ps = pt /\ NameRank(s.name) < NameRank(t.name))

EmittedBefore(i) == {order_result.order[j].name : j \in 1..(i - 1)}
\* the positions of the services that are ready when position i is emitted
ReadyAt(i) ==
    {k \in DOMAIN order_result.order :
        /\ k >= i
        /\ DepSet(order_result.order[k]) \subseteq EmittedBefore(i)}

\* C1: for distinct names, present dependencies and an acyclic graph the
\* result is a permutation of the input in which every service comes after
\* each of its dependencies.
C1_TopologicalOrder ==
    (Called /\ DistinctNames /\ AllDepsPresent /\ ~HasCycle) =>
        /\ IsOk
        /\ Len(order_result.order) = Len(services)
        /\ Range(order_result.order) = Range(services)
        /\ \A i \in DOMAIN order_result.order :
             DepSet(order_result.order[i]) \subseteq EmittedBefore(i)

\* C1 witness: an order of three services was returned for a diamond-shaped
\* input, one service depending on the two others.
C1_Witness ==
    /\ IsOk /\ DistinctNames /\ Len(services) = 3
    /\ \E i \in DOMAIN services : Cardinality(DepSet(services[i])) = 2

\* C2: at every emission step, the first included, the emitted service is the
\* least by (priority, name) among the services whose dependencies have all
\* been emitted; a missing priority counts as 50.
C2_TieBreak ==
    IsOk => \A i \in DOMAIN order_result.order :
                \A k \in ReadyAt(i) :
                    ~KeyLess(order_result.order[k], order_result.order[i])

IsCycleError == order_result = ErrCycle
IsUnknownDependencyError ==
    order_result.kind = "Err" /\ order_result.msg = "Unknown dependency"

\* C3 as stated: every input whose dependency graph has a directed cycle is
\* refused with the cycle error, whatever the other services are.
C3_CycleAlwaysDetected == (Called /\ HasCycle) => IsCycleError

\* C3 amended: an input with distinct names, all of whose dependencies name
\* present descriptors and whose graph has a directed cycle, is refused with
\* the cycle error and no order is returned.
C3_CycleDetected ==
    (Called /\ DistinctNames /\ AllDepsPresent /\ HasCycle) => IsCycleError

\* C3 witness: three distinct services, one outside the cycle of the two
\* others, refused with the cycle error.
C3_Witness ==
    /\ IsCycleError /\ DistinctNames /\ AllDepsPresent /\ Len(services) = 3
    /\ \E i \in DOMAIN services : services[i].name \notin Descendants(services[i].name)

----------------------------------------------------------------------------
(* The boot path's claims *)

\* the registered descriptor of name n
Desc(n) == supervisors[n].service
IsStartup(n) == IsSome(Desc(n).startup_package)
LaunchedBefore(i) == {launched[j] : j \in 1..(i - 1)}
StartupDeps(n) == {d \in DepSet(Desc(n)) : d \in DOMAIN supervisors /\ IsStartup(d)}
\* the startup services that are ready when the i-th child is launched
ReadyToLaunch(i) ==
    {n \in DOMAIN supervisors :
        /\ IsStartup(n)
        /\ n \notin LaunchedBefore(i)
        /\ StartupDeps(n) \subseteq LaunchedBefore(i)}

\* C5: at boot a startup service's child is launched only after the children
\* of all its dependencies that are startup services, and services ready
\* together are launched in (priority, name) order.
C5_BootOrder ==
    \A i \in DOMAIN launched :
        /\ StartupDeps(launched[i]) \subseteq LaunchedBefore(i)
        /\ \A n \in ReadyToLaunch(i) : ~KeyLess(Desc(n), Desc(launched[i]))

----------------------------------------------------------------------------
(* The supervisor's claims *)

ThreadExists == thread_pc \notin {"off", "unspawned"}
Policy(r) == ThreadExists /\ supervisor.service.restart = r
Terminated == thread_pc \in {"done", "failed"}

\* the child launched last is no longer running
ChildGone == procs # <<>> /\ procs[Len(procs)].status # "running"
\* process p has exited with the given code
ExitedWith(p, code) ==
    p \in DOMAIN procs /\ procs[p].status # "running" /\ procs[p].code = code

\* C6: once the child of a restart=Never service has exited, whatever its
\* exit code, no further child is launched and restart_count keeps its value,
\* and the supervisor's loop terminates.
C6_RestartNever ==
    /\ [][(Policy("Never") /\ ChildGone) =>
              /\ Len(procs') = Len(procs)
              /\ supervisor'.restart_count = supervisor.restart_count]_vars
    /\ (Policy("Never") /\ ChildGone) ~> Terminated

\* the restarts the loop has performed
Restarts == Cardinality({i \in DOMAIN launch_log : launch_log[i].via = "restart"})

\* C7: with restart=Always and no shutdown requested, at every iteration
\* boundary of the loop restart_count equals the number of restarts performed.
C7_RestartCount ==
    (Policy("Always") /\ ~shutdown_flag /\ thread_pc = "loop")
        => supervisor.restart_count = Restarts

\* C8: with restart=OnFailure and no shutdown requested, a child that exits
\* with a non-zero code is followed by a new launch; after an exit with code 0
\* nothing is launched, the state becomes Stopped and the loop terminates.
C8_OnFailure ==
    /\ \A p \in 1..MaxLaunches :
         (Policy("OnFailure") /\ ExitedWith(p, "1") /\ ~shutdown_flag)
            ~> (Len(procs) > p \/ shutdown_flag \/ thread_pc = "failed")
    /\ \A p \in 1..MaxLaunches :
         (Policy("OnFailure") /\ ExitedWith(p, "0") /\ ~shutdown_flag)
            ~> (shutdown_flag \/ (thread_pc = "done" /\ supervisor.state = "Stopped"))
    /\ [][(Policy("OnFailure") /\ ExitedWith(Len(procs), "0"))
              => Len(procs') = Len(procs)]_vars

Digits == {"0", "1", "2", "3", "4", "5", "6", "7", "8", "9"}

\* the name has the form <base>@ttyN
HasTtyForm(name) ==
    \E pos \in DOMAIN name :
        /\ pos > 1
        /\ name[pos] = "@"
        /\ Len(name) > pos + 3
        /\ SubSeq(name, pos + 1, pos + 3) = <<"t", "t", "y">>
        /\ \A i \in (pos + 4)..Len(name) : name[i] \in Digits

TtyAlways ==
    /\ ThreadExists
    /\ HasTtyForm(supervisor.service.name)
    /\ supervisor.service.restart = "Always"

\* C9: the supervisor of a <base>@ttyN service with restart=Always launches
\* no child, at first start or at restart, in a step in which the probe of
\* the tty reports true.
C9_TtyArbitration ==
    \A i \in DOMAIN launch_log :
        (TtyAlways /\ launch_log[i].via # "manager") => ~launch_log[i].busy

\* the supervisor runs and has no child because the tty was in use
HeldBack ==
    /\ TtyAlways
    /\ thread_pc \in {"loop", "body"}
    /\ supervisor.state \in {"Stopped", "Stopping"}

LiveChildren == {p \in DOMAIN procs : procs[p].status = "running"}

\* C10: a <base>@ttyN supervisor with restart=Always that is held back
\* launches a child once the probe returns false and stays false, and it
\* never has two children alive.
C10_TtyResume ==
    /\ [](TtyAlways => Cardinality(LiveChildren) <= 1)
    /\ (HeldBack /\ ~tty_in_use) ~> (~HeldBack \/ tty_in_use \/ shutdown_flag)

\* the launches a step adds to the history
NewLaunches == {launch_log'[i] : i \in DOMAIN launch_log' \ DOMAIN launch_log}

\* C25: once shutdown_flag is set, before or during the sleep of the restart
\* delay, the supervisor launches no child by a restart.
C25_CancelBeforeRestart ==
    [][shutdown_flag => \A l \in NewLaunches : l.via # "restart"]_vars

\* the supervisor of a service that is no tty@ instance left its loop, no
\* shutdown requested, after its only child exited with the given code
NeverEnded(code) ==
    /\ Policy("Never")
    /\ is_tty_instance(supervisor.service.name) = None
    /\ ~shutdown_flag
    /\ thread_pc = "done"
    /\ Len(procs) = 1
    /\ procs[1] = [status |-> "reaped", code |-> code]

\* C26: with restart=Never, after the child has exited the supervisor's state
\* is Stopped when the exit code is 0 and Failed when it is non-zero.
C26_NeverFinalState ==
    /\ NeverEnded("0") => supervisor.state = "Stopped"
    /\ NeverEnded("1") => supervisor.state = "Failed"

\* a supervisor that a failed launch left in state Starting
LeftStarting(sup) == sup.state = "Starting" /\ sup.child = None

\* C27: a launch that fails, in the supervisor loop or in a start through the
\* registry, leaves the supervisor in state Failed with no child: the loop
\* that ended with the error of a launch is in state Failed, and no supervisor
\* of the registry is left in state Starting without a child.
C27_LaunchFailureFailed ==
    /\ (thread_pc = "failed" /\ supervisor.child = None) => supervisor.state = "Failed"
    /\ \A n \in DOMAIN supervisors : ~LeftStarting(supervisors[n])

\* the step in which the supervisor leaves its loop through the stop path
LeavesByStopPath == thread_pc = "loop" /\ shutdown_flag /\ thread_pc' = "done"

\* C28: a supervisor that leaves its loop through the stop path is in state
\* Stopped or Failed, also when the stop returned an error or the wait timed
\* out; it is not left in Stopping.
C28_StopPathEndState ==
    [][LeavesByStopPath => supervisor'.state \in {"Stopped", "Failed"}]_vars

\* C35: once shutdown_flag is set, the supervisor thread observes it and
\* eventually leaves its loop.
C35_FanOutLiveness == (shutdown_flag /\ ThreadExists) ~> Terminated

\* the supervisor in the thread holds a child that runs
ChildAlive ==
    /\ ThreadExists
    /\ IsSome(supervisor.child)
    /\ procs[Unwrap(supervisor.child)].status = "running"

\* C36: for every supervised service, tty instances included, a launched
\* child that stays alive with no shutdown requested leads from state
\* Starting to state Running.
C36_StartingToRunning ==
    (ChildAlive /\ supervisor.state = "Starting")
        ~> (~ChildAlive \/ shutdown_flag \/ supervisor.state = "Running")

\* the supervisor is at an iteration boundary of its loop, or has left it
AtBoundary == thread_pc \in {"loop", "done", "failed"}

\* C39: at every iteration boundary of the supervisor loop and when the loop
\* has terminated, state Running implies that a child handle is present and
\* state Stopped implies that none is.
C39_StateAgreesWithChild ==
    AtBoundary =>
        /\ supervisor.state = "Running" => IsSome(supervisor.child)
        /\ supervisor.state = "Stopped" => supervisor.child = None

\* the supervisor of a tty@ instance with restart=Always holds child p, which
\* has exited by itself
TtyChildExited(p) ==
    /\ ThreadExists
    /\ IsSome(is_tty_instance(supervisor.service.name))
    /\ supervisor.service.restart = "Always"
    /\ supervisor.child = Some(p)
    /\ procs[p].status # "running"

\* C40: when the child of a tty@ttyN service with restart=Always exits by
\* itself while the tty is free and no shutdown is requested, the supervisor
\* eventually launches a new child.
C40_TtyExitDetected ==
    \A p \in 1..MaxLaunches :
        (TtyChildExited(p) /\ ~tty_in_use /\ ~shutdown_flag)
            ~> (Len(procs) > p \/ tty_in_use \/ shutdown_flag)

----------------------------------------------------------------------------
(* The registry's claims *)

\* C11: a call of ServiceManager::shutdown that finds the registry as the call
\* before it left it is a no-op: it stops no child (so it sends no signal),
\* joins no thread, leaves the registry, the handles and shutdown_flag as
\* they were, and returns Ok.
C11_IdempotentShutdown ==
    \A i \in 2..Len(shutdown_log) :
        LET first == shutdown_log[i - 1]
            second == shutdown_log[i] IN
        second.before = first.after =>
            /\ second.stops = {}
            /\ second.joined = {}
            /\ second.after = first.after
            /\ second.result = "Ok"

\* a second call has returned, after a first call that joined a thread
C11_Witness ==
    /\ Len(shutdown_log) >= 2
    /\ shutdown_log[1].joined # {}
    /\ shutdown_log[2].before = shutdown_log[1].after

\* the supervisor threads spawned for the name
ThreadsSpawned(n) == Cardinality({i \in DOMAIN spawn_log : spawn_log[i] = n})

\* C20: once supervise_all has returned every registered supervisor has
\* exactly one supervisor thread, no name ever has two, and a further call of
\* supervise_all spawns no thread and launches no child.
C20_SuperviseAllIdempotent ==
    /\ [](supervise_calls >= 1 =>
            \A n \in DOMAIN supervisors : ThreadsSpawned(n) = 1 /\ n \in handles)
    /\ [](\A n \in SupNames : ThreadsSpawned(n) <= 1)
    /\ [][(supervise_calls >= 1 /\ supervise_calls' = supervise_calls + 1) =>
              (spawn_log' = spawn_log /\ procs' = procs /\ handles' = handles)]_vars

\* supervise_all has returned twice for a registered service
C20_Witness ==
    /\ supervise_calls = 2
    /\ DOMAIN supervisors # {}
    /\ \A n \in DOMAIN supervisors : ThreadsSpawned(n) = 1

\* C19: add_service of a descriptor whose name is registered fails with the
\* already-added error and leaves the registry as it was (the supervisor of
\* the name keeps its descriptor, its child and its state); add_service of a
\* new name succeeds and adds exactly one supervisor, Stopped and without a
\* child, leaving the other supervisors as they were.
C19_Register ==
    IsSome(last_register) =>
        LET call == Unwrap(last_register)
            name == call.service.name IN
        IF name \in DOMAIN call.before
        THEN /\ call.result = ErrAlreadyAdded(name)
             /\ call.after = call.before
        ELSE /\ call.result.kind = "Ok"
             /\ DOMAIN call.after = DOMAIN call.before \cup {name}
             /\ \A n \in DOMAIN call.before : call.after[n] = call.before[n]
             /\ call.after[name] = [service |-> call.service, child |-> None,
                                    restart_count |-> 0, state |-> "Stopped"]

\* a descriptor was refused whose name belongs to a supervisor with a child
\* and another descriptor
C19_Witness ==
    /\ IsSome(last_register)
    /\ LET call == Unwrap(last_register)
           name == call.service.name IN
       /\ name \in DOMAIN call.before
       /\ IsSome(call.before[name].child)
       /\ call.before[name].service # call.service
       /\ call.result.kind = "Err"

\* C38: no service has two child processes alive at the same time, whatever
\* sequence of starts through the registry, thread spawns and supervisor-loop
\* steps has happened.
C38_OneLiveChild == Cardinality(LiveChildren) <= 1

\* C31: a panic of one supervisor thread, also while it holds a logger
\* mutex, does not take down ServiceManager::shutdown: the call does not
\* panic, and when it has returned every handle has been joined.
C31_PanicContained ==
    /\ stop_pc # "panicked"
    /\ stop_pc = "done" => handles = {}

\* the step in which a call of ServiceManager::shutdown returns
ShutdownReturns == Len(shutdown_log') > Len(shutdown_log)

\* C29: when ServiceManager::shutdown has returned, every child that was
\* launched, by a supervisor of the registry or by one that runs in a thread,
\* has terminated and has been reaped.
C29_NoOrphans ==
    [][ShutdownReturns => \A p \in DOMAIN procs' : procs'[p].status = "reaped"]_vars

\* C30: a call of ServiceManager::shutdown terminates: whatever the stop
\* command, the child and the supervisor threads do, the call returns.
C30_ShutdownTerminates == <>(stop_pc = "done")

----------------------------------------------------------------------------
(* The loader's claims *)

\* load_services has returned
Loaded == boot_pc \in {"loaded", "load_failed"}

\* the entry is a service file
IsServiceFile(file) == Extension(file.filename) = Some(<<"v", "s">>)

\* the service file cannot be read or lacks name or cmd
FileFails(file) ==
    IsServiceFile(file) /\ (~file.readable \/ file.name = <<>> \/ file.cmd = <<>>)

\* the entry is a template that can be read and has name and cmd
IsValidTemplate(file) ==
    IsServiceFile(file) /\ ContainsChar(file.filename, "@") /\ ~FileFails(file)

\* the entry is a plain service file that can be read and has name and cmd
IsValidPlain(file) ==
    IsServiceFile(file) /\ ~ContainsChar(file.filename, "@") /\ ~FileFails(file)

\* the part of a template's file name before the '@'
TemplateBase(filename) ==
    SubSeq(filename, 1, (CHOOSE i \in DOMAIN filename : filename[i] = "@"
                                     /\ \A j \in 1..(i - 1) : filename[j] # "@") - 1)

\* C22: a template that lists no instances gives no descriptor, and one that
\* lists the instances A, B gives exactly the descriptors <base>@A and
\* <base>@B: as many descriptors as instances listed.
C22_TemplateExpansion ==
    Loaded =>
        \A i \in DOMAIN directory :
            IsValidTemplate(directory[i]) =>
                LET listed == UnwrapOr(directory[i].instances, <<>>) IN
                /\ Len(produced[i]) = Len(listed)
                /\ \A k \in DOMAIN listed :
                     produced[i][k].name =
                        TemplateBase(directory[i].filename) \o <<"@">> \o listed[k]

\* C23: the descriptors load_services returns have pairwise distinct names,
\* and every descriptor a file gave is among them.
C23_UniqueNames ==
    boot_pc = "loaded" =>
        /\ \A i, j \in DOMAIN order_result.order :
               i # j => order_result.order[i].name # order_result.order[j].name
        /\ Len(order_result.order) = Len(services)

\* the descriptors returned
Returned == IF order_result.kind = "Ok" THEN Range(order_result.order) ELSE {}

\* C24 as stated: when a file of the directory fails, load_services still
\* succeeds and returns a descriptor for every valid plain file and for every
\* instance of every valid template.
C24_FailedFileSkippedAlways ==
    (Loaded /\ \E i \in DOMAIN directory : FileFails(directory[i])) =>
        /\ boot_pc = "loaded"
        /\ \A i \in DOMAIN directory :
             (IsValidPlain(directory[i]) \/ IsValidTemplate(directory[i])) =>
                 \A k \in DOMAIN produced[i] : produced[i][k] \in Returned

\* the directory without the files that fail
WithoutFailed(dir) == SelectSeq(dir, LAMBDA file : ~FileFails(file))

\* C24 amended: a file that fails is skipped: load_services returns what it
\* returns for the directory without the failed files, be it the ordered
\* descriptors or the error of the orderer.
C24_FailedFileSkipped ==
    Loaded =>
        /\ order_result \in LoadResults(WithoutFailed(directory), dev_entries)
        /\ \A i \in DOMAIN directory : FileFails(directory[i]) => produced[i] = <<>>

\* a file failed and a valid file that follows it was loaded
C24_Witness ==
    /\ boot_pc = "loaded"
    /\ Len(directory) = 2
    /\ FileFails(directory[1])
    /\ directory[1].readable
    /\ IsValidPlain(directory[2])
    /\ Len(order_result.order) = 1

----------------------------------------------------------------------------
(* The control endpoint's claims *)

Threads == {MainThread} \cup {ShutdownThread(i) : i \in DOMAIN sd}

\* the mutexes the thread holds
LocksHeld(t) ==
    {l \in {"registry"} : registry_lock.holder = Some(t)}
    \cup {l \in {"console", "file"} : logger_locks[l] = Some(t)}

\* the thread is inside start_service or stop_service
InChildOperation(t) ==
    \/ t = MainThread /\ ctl_starting # None
    \/ \E i \in DOMAIN sd : t = ShutdownThread(i) /\ sd[i].pc = "stopping"

\* C13: a thread that is launching or stopping a child holds neither the
\* registry mutex nor a logger mutex.
C13_NoLockAcrossChildOperation ==
    \A t \in Threads : InChildOperation(t) => LocksHeld(t) = {}

\* the entries of the history that precede entry k
Earlier(k) == {ctl_trace[j] : j \in 1..(k - 1)}

\* the entries of the history of the given kind for request i
Events(ev, i) == {k \in DOMAIN ctl_trace : ctl_trace[k].ev = ev /\ ctl_trace[k].req = i}

\* the command of the line of request i
WireCommand(i) == requests[i].wire.command

\* C14: when the thread of a Shutdown or Reboot request stores the flag, and
\* when a supervisor is asked to stop for it, the response with success true
\* and the message "<Cmd> initiated" has been written to the client; the
\* flag is set by these threads only.
C14_AckBeforeShutdown ==
    /\ \A k \in DOMAIN ctl_trace :
         ctl_trace[k].ev \in {"flag", "stop"} =>
            Event("response", ctl_trace[k].req, TRUE,
                  WireCommand(ctl_trace[k].req) \o " initiated", "", <<>>) \in Earlier(k)
    /\ shutdown_flag => \E i \in DOMAIN requests : Events("flag", i) # {}
    /\ \A i \in DOMAIN requests :
         Accepted(requests[i].wire) =>
            requests[i].response = [success |-> TRUE,
                                    message |-> WireCommand(i) \o " initiated"]

\* a Reboot request was acknowledged, the flag is set and a running child was
\* asked to stop
C14_Witness ==
    /\ shutdown_flag
    /\ \E i \in DOMAIN requests :
         /\ requests[i].response.message = "Reboot initiated"
         /\ \E k \in Events("stop", i) : ctl_trace[k].ok

\* the request is well-formed and is not meant for verdantd
WrongTarget(i) ==
    /\ ParseRequest(requests[i].wire).kind = "Ok"
    /\ ParseRequest(requests[i].wire).request.target # "Verdantd"

\* C15: a well-formed request whose target is not Verdantd is answered with
\* success false and "Incorrect target", and no shutdown is begun for it: no
\* thread is spawned, so the flag is not stored, no service is stopped and
\* nothing is forwarded to init.
C15_IncorrectTarget ==
    \A i \in DOMAIN requests :
        WrongTarget(i) =>
            /\ requests[i].response = [success |-> FALSE, message |-> "Incorrect target"]
            /\ sd[i].pc = "none"
            /\ \A k \in DOMAIN ctl_trace :
                 ctl_trace[k].req = i => ctl_trace[k].ev = "response"

\* the line of request i cannot be parsed
Unparseable(i) == ParseRequest(requests[i].wire).kind = "Err"

\* the line of request i parses to a command other than Shutdown and Reboot
OtherCommand(i) ==
    /\ ParseRequest(requests[i].wire).kind = "Ok"
    /\ ParseRequest(requests[i].wire).request.command \notin {"Shutdown", "Reboot"}

\* C16: an unparseable request is answered with success false and "Invalid
\* IPC request", a request with a command other than Shutdown and Reboot with
\* success false and "Unsupported command"; handling either leaves
\* shutdown_flag, the registry, the handles, the children and the mutexes as
\* they were, spawns no thread, and nothing is ever stopped or sent to init
\* for it.
C16_RejectedWithoutEffect ==
    /\ [](\A i \in DOMAIN requests :
            /\ Unparseable(i) =>
                  requests[i].response = [success |-> FALSE,
                                          message |-> "Invalid IPC request"]
            /\ OtherCommand(i) =>
                  requests[i].response = [success |-> FALSE,
                                          message |-> "Unsupported command"]
            /\ (Unparseable(i) \/ OtherCommand(i)) =>
                  /\ sd[i].pc = "none"
                  /\ \A k \in DOMAIN ctl_trace :
                       ctl_trace[k].req = i => ctl_trace[k].ev = "response")
    /\ [][(/\ Len(requests') = Len(requests) + 1
           /\ LET msg == requests'[Len(requests')].wire IN
              \/ ParseRequest(msg).kind = "Err"
              \/ ParseRequest(msg).request.command \notin {"Shutdown", "Reboot"})
          => UNCHANGED <<shutdown_flag, supervisors, handles, procs, registry_lock,
                         logger_locks>>]_vars

\* an unparseable line and a GetStatus request were both rejected while a
\* child was running
C16_Witness ==
    /\ Len(requests) = 2
    /\ \E i, j \in DOMAIN requests : Unparseable(i) /\ OtherCommand(j)
    /\ \E p \in DOMAIN procs : procs[p].status = "running"
    /\ ~shutdown_flag

\* C17: at most one request is sent to init for a request, it has the target
\* Init and the command of the request and follows the return of
\* ServiceManager::shutdown; and for every accepted request one is sent.
C17_ForwardedOnce ==
    /\ [](\A i \in DOMAIN requests :
            /\ Cardinality(Events("forward", i)) <= 1
            /\ \A k \in Events("forward", i) :
                 /\ Accepted(requests[i].wire)
                 /\ ctl_trace[k].target = "Init"
                 /\ ctl_trace[k].text = WireCommand(i)
                 /\ Event("shutdown_returned", i, TRUE, "", "", <<>>) \in Earlier(k))
    /\ \A i \in 1..MaxRequests :
         []((i \in DOMAIN requests /\ Accepted(requests[i].wire))
                => <>(Cardinality(Events("forward", i)) = 1))

\* C18: whenever shutdown_flag is set, a shutdown thread has stopped the
\* local services and has received the reply of init.
C18_ExitFlagLast ==
    shutdown_flag =>
        \E i \in DOMAIN requests :
            /\ Events("shutdown_returned", i) # {}
            /\ Events("reply", i) # {}

\* the request of a later client
ShutdownLine == [json |-> TRUE, target |-> "Verdantd", command |-> "Shutdown"]

\* C32: a client that has connected and sent no line does not stall the
\* endpoint: the Shutdown request of a later client can still be handled.
C32_SilentClientNoStall ==
    (Stalled /\ Len(requests) < MaxRequests /\ ctl_starting = None)
        => ENABLED HandleClient(ShutdownLine)

\* C37: the shutdown thread does not lock the registry mutex while it holds
\* it: it neither blocks on its own guard nor panics in the second lock.
C37_NoRelockWhileHeld ==
    \A i \in DOMAIN sd : sd[i].pc \notin {"deadlocked", "panicked"}

\* C21: a call of ServiceManager::stop_service for a registered service with
\* a running child, be it held by the registry or by the supervisor thread
\* of the service, leaves that child not running, and changes the process of
\* no other service.
C21_StopTargetsOne ==
    IsSome(last_stop) =>
        LET call == Unwrap(last_stop) IN
        /\ \A pid \in call.running : call.after[pid].status # "running"
        /\ \A pid \in DOMAIN call.before \ call.running :
               call.after[pid] = call.before[pid]

----------------------------------------------------------------------------
(* The launcher's claims *)

\* C12: the stop of a running child completes within timeout_stop + 3 s: as
\* long as stop_service has not returned, and when it returns, no more than
\* that time has passed since it was called.
C12_BoundedStop ==
    (stop_pc # "off" /\ TheCall.child = "running")
        => elapsed <= TimeoutStop(TheCall.service) + 3 * SecondTicks

\* the step of stop_service that sends SIGKILL
SendsSigkill == stop_pc = "sigkill" /\ stop_pc' = "poll_kill"

\* the step in which stop_service returns
StopReturns == stop_pc # "returned" /\ stop_pc' = "returned"

\* the child is dead: it has exited, reaped or not
ChildDead(table) == table[TheCall.pid].status # "running"

\* C33: SIGKILL is sent only to a child that is still alive after the poll
\* that follows SIGTERM, and stop_service returns success when the child has
\* exited by the time it returns and the stop command, if any, could be run.
C33_SignalEscalation ==
    /\ [][SendsSigkill => ~ChildDead(procs)]_vars
    /\ [][(StopReturns /\ ChildDead(procs) /\ stop_pc # "called")
              => Unwrap(stop_call').result = "Ok"]_vars

\* the positions of stop_service on its path of signals
SignalPath == {"sigterm", "poll_term", "sigkill", "poll_kill"}

\* C34: the stop command and the signals are alternatives: with a stop
\* command set, stop_service does not take the path of SIGTERM and SIGKILL.
C34_StopCmdOrSignals ==
    (stop_pc # "off" /\ IsSome(TheCall.service.stop_cmd)) => stop_pc \notin SignalPath

====
